---- MODULE Spec2Model ----
(***************************************************************************)
(* Schedule generation, scoring and selection of ASKADEMIC.                *)
(*                                                                         *)
(* The repository holds two implementations of the same engine:            *)
(*   - the backend one (backend/scheduleGenerator.js, driven by the        *)
(*     POST /api/generate-schedules handler of backend/server.js), and     *)
(*   - the frontend one (frontend/src/utils/scheduler.js, driven by        *)
(*     handleGenerateSchedules of Dashboard.jsx).                          *)
(* Both are modelled, each from its own code.                              *)
(*                                                                         *)
(* Numbers.  A time of day is a JS double hours + minutes/60.  The model   *)
(* counts it in ticks of a tenth of a minute (TicksPerHour ticks to the    *)
(* hour), which orders the values exactly as the doubles are ordered as    *)
(* long as two times differ by at least a tenth of a minute.  NaN is the   *)
(* distinguished value NaN; every comparison with it is false.             *)
(***************************************************************************)
EXTENDS Integers, Sequences, FiniteSets, TLC

TicksPerMinute == 5 + 5
TicksPerHour == 60 * TicksPerMinute
NaN == 0 - 1

JsAdd(a, b) == IF a = NaN \/ b = NaN THEN NaN ELSE a + b
JsLt(a, b) == a # NaN /\ b # NaN /\ a < b
JsGt(a, b) == a # NaN /\ b # NaN /\ a > b
Truthy(n) == n # NaN /\ n # 0

(***************************************************************************)
(* Strings the code takes apart are modelled by their parts.               *)
(*                                                                         *)
(* A time string is [kind, h, m, mod]:                                     *)
(*   kind "undefined"  the field is missing                                *)
(*   kind "empty"      the string ""                                       *)
(*   kind "text"       a string with no digits and no colon, e.g. "TBA"    *)
(*   kind "clock"      "HH:MM" (mod "") or "HH:MM AM" / "HH:MM PM";        *)
(*                     h is the hour field and m the minute field, in      *)
(*                     ticks (so "11:01.4" has m = 14)                     *)
(***************************************************************************)
Clock(h, m, mod) == [kind |-> "clock", h |-> h, m |-> m, mod |-> mod]
UndefinedStr == [kind |-> "undefined", h |-> 0, m |-> 0, mod |-> ""]
EmptyStr == [kind |-> "empty", h |-> 0, m |-> 0, mod |-> ""]
TextStr == [kind |-> "text", h |-> 0, m |-> 0, mod |-> ""]

\* timeStr + " AM": the suffix becomes the second blank-separated word
AppendWord(t, w) == IF t.kind = "clock" /\ t.mod = "" THEN [t EXCEPT !.mod = w] ELSE t

(***************************************************************************)
(* backend/scheduleGenerator.js parseTime: split(':').map(Number), then    *)
(* hours + minutes / 60.0; only a thrown error gives 0.0.                  *)
(*   undefined      t.split throws                      -> 0               *)
(*   ""             [0], minutes undefined              -> NaN             *)
(*   "TBA"          [NaN]                               -> NaN             *)
(*   "10:30"        [10, 30]                            -> 10.5            *)
(*   "10:30 AM"     [10, Number("30 AM") = NaN]         -> NaN             *)
(***************************************************************************)
parseTimeB(t) ==
    CASE t.kind = "undefined" -> 0
      [] t.kind = "empty" -> NaN
      [] t.kind = "text" -> NaN
      [] OTHER -> LET hours == t.h * TicksPerHour
                      minutes == IF t.mod = "" THEN t.m ELSE NaN
                  IN  JsAdd(hours, minutes)

(***************************************************************************)
(* frontend/src/utils/scheduler.js parseTime.                              *)
(***************************************************************************)
parseTimeF(timeStr) ==
    IF timeStr.kind \in {"undefined", "empty"} THEN 0
    ELSE IF timeStr.kind = "text" THEN NaN
    ELSE LET modifier == timeStr.mod
             h0 == timeStr.h
             h1 == IF modifier = "PM" /\ h0 < 12 THEN h0 + 12 ELSE h0
             h2 == IF modifier = "AM" /\ h1 = 12 THEN 0 ELSE h1
         IN  h2 * TicksPerHour + timeStr.m

(***************************************************************************)
(* A section identifier is [letters, digits, rest]: its leading run of     *)
(* letters, the run of digits after it, and what follows (which does not   *)
(* start with a digit).  An identifier that starts with something else     *)
(* has letters = "".                                                       *)
(***************************************************************************)
FullCode(id) == id.letters \o id.digits \o id.rest
RegexMatches(id) == id.letters # "" /\ id.digits # ""

\* scheduleGenerator.js getBaseCode: /^([A-Za-z]+\d+)/, else the full code
getBaseCode(id) == IF RegexMatches(id) THEN id.letters \o id.digits ELSE FullCode(id)

\* scheduler.js: (row.Course.match(/^[A-Za-z]+\d+/) || [null])[0]
NullCode == "<null>"
baseCodeF(id) == IF RegexMatches(id) THEN id.letters \o id.digits ELSE NullCode

(***************************************************************************)
(* Sequence helpers.                                                       *)
(***************************************************************************)
Range(s) == {s[i] : i \in 1..Len(s)}
Includes(s, x) == \E i \in 1..Len(s) : s[i] = x

RECURSIVE Concat(_)
Concat(ss) == IF ss = <<>> THEN <<>> ELSE Head(ss) \o Concat(Tail(ss))

\* a JS object with string keys: the sequence of its [key, val] entries in
\* insertion order, which is also its for..in / Object.values order
ObjHas(obj, k) == \E i \in 1..Len(obj) : obj[i].key = k
ObjIndex(obj, k) == CHOOSE i \in 1..Len(obj) : obj[i].key = k
ObjGet(obj, k) == obj[ObjIndex(obj, k)].val
ObjSet(obj, k, v) ==
    IF ObjHas(obj, k) THEN [obj EXCEPT ![ObjIndex(obj, k)].val = v]
    ELSE Append(obj, [key |-> k, val |-> v])
ObjValues(obj) == [i \in 1..Len(obj) |-> obj[i].val]
ObjKeys(obj) == [i \in 1..Len(obj) |-> obj[i].key]

(***************************************************************************)
(*                 BACKEND: backend/scheduleGenerator.js                   *)
(***************************************************************************)

\* the product with the head varying fastest
RECURSIVE productB_m(_)
productB_m(iterables) ==
    IF iterables = <<>> THEN << <<>> >>
    ELSE LET head == Head(iterables)
             remaining == productB_m(Tail(iterables))
         IN  Concat([k \in 1..Len(remaining) |->
                        [i \in 1..Len(head) |-> <<head[i]>> \o remaining[k]]])

\* function* product(...iterables): head varies slowest
RECURSIVE productB(_)
productB(iterables) ==
    IF iterables = <<>> THEN << <<>> >>
    ELSE LET head == Head(iterables)
             remaining == productB(Tail(iterables))
         IN  Concat([i \in 1..Len(head) |->
                        [k \in 1..Len(remaining) |-> <<head[i]>> \o remaining[k]]])

\* function* combinations(iterable, r).  indices holds the 0-based positions
\* of the code (indices[k + 1] here is indices[k] there).
PickIndices(pool, indices) == [k \in 1..Len(indices) |-> pool[indices[k] + 1]]

RECURSIVE combinationsLoop(_, _, _, _)
combinationsLoop(pool, r, indices, out) ==
    LET n == Len(pool)
        notAtMax == {k \in 0..(r - 1) : indices[k + 1] # k + n - r}
    IN  IF notAtMax = {} THEN out
        ELSE LET i == CHOOSE k \in notAtMax : \A k2 \in notAtMax : k2 <= k
                 next == [k \in 1..r |->
                            IF k - 1 < i THEN indices[k]
                            ELSE indices[i + 1] + 1 + (k - 1 - i)]
             IN  combinationsLoop(pool, r, next, Append(out, PickIndices(pool, next)))

\* mutant: the guard r > n written r >= n
combinations_m(pool, r) ==
    IF r >= Len(pool) THEN <<>>
    ELSE LET indices == [k \in 1..r |-> k - 1]
         IN  combinationsLoop(pool, r, indices, <<PickIndices(pool, indices)>>)

combinations(pool, r) ==
    IF r > Len(pool) THEN <<>>
    ELSE LET indices == [k \in 1..r |-> k - 1]
         IN  combinationsLoop(pool, r, indices, <<PickIndices(pool, indices)>>)

\* Section.conflictsWith: a timeslot is [day, start_time, end_time, start, end]
\* (1-based here: ts[1] is the day, ts[4] the start, ts[5] the end)
RECURSIVE conflictsInnerB(_, _, _)
conflictsInnerB(t1, others, j) ==
    IF j > Len(others) THEN FALSE
    ELSE LET t2 == others[j]
         IN  IF t1[1] = t2[1] /\ JsGt(t1[5], t2[4]) /\ JsGt(t2[5], t1[4]) THEN TRUE
             ELSE conflictsInnerB(t1, others, j + 1)

RECURSIVE conflictsOuterB(_, _, _)
conflictsOuterB(mine, others, i) ==
    IF i > Len(mine) THEN FALSE
    ELSE IF conflictsInnerB(mine[i], others, 1) THEN TRUE
    ELSE conflictsOuterB(mine, others, i + 1)

\* mutant: the two strict comparisons written >=
RECURSIVE conflictsInnerB_m(_, _, _)
conflictsInnerB_m(t1, others, j) ==
    IF j > Len(others) THEN FALSE
    ELSE LET t2 == others[j]
         IN  IF t1[1] = t2[1] /\ ~JsLt(t1[5], t2[4]) /\ ~JsLt(t2[5], t1[4]) THEN TRUE
             ELSE conflictsInnerB_m(t1, others, j + 1)

RECURSIVE conflictsOuterB_m(_, _, _)
conflictsOuterB_m(mine, others, i) ==
    IF i > Len(mine) THEN FALSE
    ELSE IF conflictsInnerB_m(mine[i], others, 1) THEN TRUE
    ELSE conflictsOuterB_m(mine, others, i + 1)

conflictsWithB_m(this, other) == conflictsOuterB_m(this.timeslots, other.timeslots, 1)

conflictsWithB(this, other) == conflictsOuterB(this.timeslots, other.timeslots, 1)

\* the inner loop of generateSchedules: stop at the first conflicting pair
RECURSIVE hasConflictLoopB(_, _)
hasConflictLoopB(pairs, k) ==
    IF k > Len(pairs) THEN FALSE
    ELSE IF conflictsWithB(pairs[k][1], pairs[k][2]) THEN TRUE
    ELSE hasConflictLoopB(pairs, k + 1)

hasConflictB(c) == hasConflictLoopB(combinations(c, 2), 1)

\* mutant: the product is enumerated with the head varying fastest
generateSchedulesB_m(courses) ==
    LET courseSections == ObjValues(courses)
        combos == productB_m(courseSections)
    IN  SelectSeq(combos, LAMBDA c : ~hasConflictB(c))

\* generateSchedules(courses)
generateSchedulesB(courses) ==
    LET courseSections == ObjValues(courses)
        combos == productB(courseSections)
    IN  SelectSeq(combos, LAMBDA c : ~hasConflictB(c))

\* processCourseData: the timeslots of one session, one per character of
\* session.days with the commas removed
sessionTimeslotsB(session) ==
    LET days == SelectSeq(session.days, LAMBDA ch : ch # ",")
        startTime == parseTimeB(session.start_time)
        endTime == parseTimeB(session.end_time)
    IN  IF Truthy(startTime) /\ Truthy(endTime)
        THEN [i \in 1..Len(days) |->
                <<days[i], session.start_time, session.end_time, startTime, endTime>>]
        ELSE <<>>

RECURSIVE processCourseDataLoop(_, _, _)
processCourseDataLoop(courseData, k, courses) ==
    IF k > Len(courseData) THEN courses
    ELSE LET fullCode == courseData[k].key
             baseCode == getBaseCode(fullCode)
             courses1 == IF ObjHas(courses, baseCode) THEN courses
                         ELSE ObjSet(courses, baseCode, <<>>)
             courseInfo == courseData[k].val
             timeslots == Concat([i \in 1..Len(courseInfo.sessions) |->
                                    sessionTimeslotsB(courseInfo.sessions[i])])
             section == [course_code |-> baseCode, section_id |-> FullCode(fullCode),
                         timeslots |-> timeslots]
             courses2 == IF Len(timeslots) > 0
                         THEN ObjSet(courses1, baseCode,
                                     Append(ObjGet(courses1, baseCode), section))
                         ELSE courses1
         IN  processCourseDataLoop(courseData, k + 1, courses2)

processCourseData(courseData) == processCourseDataLoop(courseData, 1, <<>>)

\* ---- scoring (scheduleGenerator.js) ----
RECURSIVE SumSeq(_)
SumSeq(s) == IF s = <<>> THEN 0 ELSE Head(s) + SumSeq(Tail(s))

countMorningClassesB(schedule, cutoff) ==
    SumSeq([i \in 1..Len(schedule) |->
              Len(SelectSeq(schedule[i].timeslots, LAMBDA ts : JsLt(ts[4], cutoff)))])

countEveningClassesB(schedule, cutoff) ==
    SumSeq([i \in 1..Len(schedule) |->
              Len(SelectSeq(schedule[i].timeslots, LAMBDA ts : JsGt(ts[4], cutoff)))])

\* mutant: the day compared with is 'M'
countFridayClassesB_m(schedule) ==
    SumSeq([i \in 1..Len(schedule) |->
              Len(SelectSeq(schedule[i].timeslots, LAMBDA ts : ts[1] = "M"))])

countFridayClassesB(schedule) ==
    SumSeq([i \in 1..Len(schedule) |->
              Len(SelectSeq(schedule[i].timeslots, LAMBDA ts : ts[1] = "F"))])

\* 1.5 / 60.0 hours, in ticks
MINIMUM_GAP_TOLERANCE == 15

\* Array.prototype.sort((a, b) => a[0] - b[0]) on [start, end] pairs: a stable
\* ascending sort on the start
RECURSIVE InsertByStart(_, _)
InsertByStart(sorted, x) ==
    IF sorted = <<>> THEN <<x>>
    ELSE IF x[1] < Head(sorted)[1] THEN <<x>> \o sorted
    ELSE <<Head(sorted)>> \o InsertByStart(Tail(sorted), x)

RECURSIVE SortByStart(_)
SortByStart(s) ==
    IF s = <<>> THEN <<>>
    ELSE InsertByStart(SortByStart(SubSeq(s, 1, Len(s) - 1)), s[Len(s)])

\* the first loop of countBackToBack: dailyTimeslots[day].push([start, end])
RECURSIVE groupByDay(_, _, _)
groupByDay(slots, k, dailyTimeslots) ==
    IF k > Len(slots) THEN dailyTimeslots
    ELSE LET day == slots[k][1]
             prev == IF ObjHas(dailyTimeslots, day) THEN ObjGet(dailyTimeslots, day)
                     ELSE <<>>
         IN  groupByDay(slots, k + 1,
                        ObjSet(dailyTimeslots, day, Append(prev, <<slots[k][2], slots[k][3]>>)))

\* the loop over one day's sorted times
adjacentCount(sortedTimes, tolerance) ==
    Cardinality({i \in 2..Len(sortedTimes) :
                    JsLt(sortedTimes[i][1] - sortedTimes[i - 1][2], tolerance)})

\* mutant: the day's list is walked as pushed, without the sort
countBackToBackB_m(schedule) ==
    LET slots == Concat([i \in 1..Len(schedule) |->
                           [j \in 1..Len(schedule[i].timeslots) |->
                              <<schedule[i].timeslots[j][1], schedule[i].timeslots[j][4],
                                schedule[i].timeslots[j][5]>>]])
        dailyTimeslots == groupByDay(slots, 1, <<>>)
    IN  SumSeq([d \in 1..Len(dailyTimeslots) |->
                  IF Len(dailyTimeslots[d].val) < 2 THEN 0
                  ELSE adjacentCount(dailyTimeslots[d].val, MINIMUM_GAP_TOLERANCE)])

countBackToBackB(schedule) ==
    LET slots == Concat([i \in 1..Len(schedule) |->
                           [j \in 1..Len(schedule[i].timeslots) |->
                              <<schedule[i].timeslots[j][1], schedule[i].timeslots[j][4],
                                schedule[i].timeslots[j][5]>>]])
        dailyTimeslots == groupByDay(slots, 1, <<>>)
    IN  SumSeq([d \in 1..Len(dailyTimeslots) |->
                  IF Len(dailyTimeslots[d].val) < 2 THEN 0
                  ELSE adjacentCount(SortByStart(dailyTimeslots[d].val),
                                     MINIMUM_GAP_TOLERANCE)])

\* what countBackToBack leaves in memory: the schedule it was given and its
\* own dailyTimeslots, whose lists of two or more fresh [start, end] pairs
\* it has sorted in place
heapAfterCountBackToBackB(schedule) ==
    LET slots == Concat([i \in 1..Len(schedule) |->
                           [j \in 1..Len(schedule[i].timeslots) |->
                              <<schedule[i].timeslots[j][1], schedule[i].timeslots[j][4],
                                schedule[i].timeslots[j][5]>>]])
        pushed == groupByDay(slots, 1, <<>>)
    IN  [schedule |-> schedule,
         dailyTimeslots |->
            [d \in 1..Len(pushed) |->
                [key |-> pushed[d].key,
                 val |-> IF Len(pushed[d].val) < 2 THEN pushed[d].val
                         ELSE SortByStart(pushed[d].val)]]]

countDaysUsedB(schedule) ==
    Cardinality(UNION {{schedule[i].timeslots[j][1] : j \in 1..Len(schedule[i].timeslots)} :
                          i \in 1..Len(schedule)})

\* the schedule object after scoreSchedule(schedule, prefs) returned: the
\* filter, reduce and Set calls build new values, only countBackToBack sorts
scheduleAfterScoreB(schedule, prefs) ==
    IF prefs.avoid_back_to_back THEN heapAfterCountBackToBackB(schedule).schedule
    ELSE schedule

scoreScheduleB(schedule, prefs) ==
    LET s1 == IF prefs.no_before
              THEN countMorningClassesB(schedule, prefs.before_cutoff) ELSE 0
        s2 == IF prefs.no_after
              THEN countEveningClassesB(schedule, prefs.after_cutoff) ELSE 0
        s3 == IF prefs.avoid_friday THEN countFridayClassesB(schedule) ELSE 0
        s4 == IF prefs.avoid_back_to_back THEN countBackToBackB(schedule) ELSE 0
        s5 == IF prefs.minimize_days THEN countDaysUsedB(schedule) ELSE 0
    IN  s1 + s2 + s3 + s4 + s5

(***************************************************************************)
(*        BACKEND: POST /api/generate-schedules (backend/server.js)        *)
(***************************************************************************)
MinOf(scores) == CHOOSE m \in Range(scores) : \A x \in Range(scores) : m <= x

\* allSchedules.filter((s, i) => scores[i] === minScore)
RECURSIVE filterByScore(_, _, _, _)
filterByScore(schedules, scores, minScore, i) ==
    IF i > Len(schedules) THEN <<>>
    ELSE (IF scores[i] = minScore THEN <<schedules[i]>> ELSE <<>>)
         \o filterByScore(schedules, scores, minScore, i + 1)

\* selectedCourses.forEach(code => { if (sectionsByCourse[code]) ... })
RECURSIVE coursesToScheduleLoop(_, _, _, _)
coursesToScheduleLoop(sectionsByCourse, selected, k, acc) ==
    IF k > Len(selected) THEN acc
    ELSE LET code == selected[k]
         IN  coursesToScheduleLoop(sectionsByCourse, selected, k + 1,
                IF ObjHas(sectionsByCourse, code)
                THEN ObjSet(acc, code, ObjGet(sectionsByCourse, code))
                ELSE acc)

coursesToScheduleOf(data, selected) ==
    coursesToScheduleLoop(processCourseData(data), selected, 1, <<>>)

allSchedulesOf(data, selected) == generateSchedulesB(coursesToScheduleOf(data, selected))

\* mutant: only the first schedule with the minimum score is kept
bestSchedulesB_m(allSchedules, preferences) ==
    IF Len(allSchedules) > 0
    THEN LET scores == [i \in 1..Len(allSchedules) |->
                          scoreScheduleB(allSchedules[i], preferences)]
             minScore == MinOf(scores)
         IN  <<filterByScore(allSchedules, scores, minScore, 1)[1]>>
    ELSE <<>>

bestSchedulesB(allSchedules, preferences) ==
    IF Len(allSchedules) > 0
    THEN LET scores == [i \in 1..Len(allSchedules) |->
                          scoreScheduleB(allSchedules[i], preferences)]
             minScore == MinOf(scores)
         IN  filterByScore(allSchedules, scores, minScore, 1)
    ELSE <<>>

\* mutant: an empty list of schedules is answered with an error status
generateSchedulesHandler_m(hasData, data, selected, preferences) ==
    IF ~hasData THEN [status |-> 404, body |-> <<>>]
    ELSE IF Len(coursesToScheduleOf(data, selected)) = 0
         THEN [status |-> 400, body |-> <<>>]
         ELSE IF allSchedulesOf(data, selected) = <<>>
              THEN [status |-> 500, body |-> <<>>]
              ELSE [status |-> 200,
                    body |-> bestSchedulesB(allSchedulesOf(data, selected), preferences)]

\* the whole handler: status and JSON body of the response
generateSchedulesHandler(hasData, data, selected, preferences) ==
    IF ~hasData THEN [status |-> 404, body |-> <<>>]
    ELSE IF Len(coursesToScheduleOf(data, selected)) = 0
         THEN [status |-> 400, body |-> <<>>]
         ELSE [status |-> 200,
               body |-> bestSchedulesB(allSchedulesOf(data, selected), preferences)]

(***************************************************************************)
(*              FRONTEND: frontend/src/utils/scheduler.js                  *)
(***************************************************************************)

\* Section.conflictsWith on Timeslot objects {day, startTime, endTime}
RECURSIVE conflictsInnerF(_, _, _)
conflictsInnerF(t1, others, j) ==
    IF j > Len(others) THEN FALSE
    ELSE LET t2 == others[j]
         IN  IF t1.day = t2.day /\ JsGt(t1.endTime, t2.startTime)
                                /\ JsGt(t2.endTime, t1.startTime) THEN TRUE
             ELSE conflictsInnerF(t1, others, j + 1)

RECURSIVE conflictsOuterF(_, _, _)
conflictsOuterF(mine, others, i) ==
    IF i > Len(mine) THEN FALSE
    ELSE IF conflictsInnerF(mine[i], others, 1) THEN TRUE
    ELSE conflictsOuterF(mine, others, i + 1)

\* mutant: touching timeslots count as a conflict (>= for >)
conflictsWithF_m(this, otherSection) ==
    \E i \in 1..Len(this.timeslots), j \in 1..Len(otherSection.timeslots) :
        /\ this.timeslots[i].day = otherSection.timeslots[j].day
        /\ ~JsLt(this.timeslots[i].endTime, otherSection.timeslots[j].startTime)
        /\ ~JsLt(otherSection.timeslots[j].endTime, this.timeslots[i].startTime)

\* mutant: the second comparison of the overlap test is left out
conflictsWithF_m2(this, otherSection) ==
    \E i \in 1..Len(this.timeslots), j \in 1..Len(otherSection.timeslots) :
        /\ this.timeslots[i].day = otherSection.timeslots[j].day
        /\ JsGt(this.timeslots[i].endTime, otherSection.timeslots[j].startTime)

conflictsWithF(this, otherSection) ==
    conflictsOuterF(this.timeslots, otherSection.timeslots, 1)

\* product(...arrays): reduce over the arrays, acc.flatMap(x => array.map(...))
RECURSIVE productLoopF(_, _, _)
productLoopF(arrays, k, acc) ==
    IF k > Len(arrays) THEN acc
    ELSE productLoopF(arrays, k + 1,
            Concat([x \in 1..Len(acc) |->
                      [y \in 1..Len(arrays[k]) |-> Append(acc[x], arrays[k][y])]]))

\* mutant: every array is walked without its last element
RECURSIVE productLoopF_m(_, _, _)
productLoopF_m(arrays, k, acc) ==
    IF k > Len(arrays) THEN acc
    ELSE productLoopF_m(arrays, k + 1,
            Concat([x \in 1..Len(acc) |->
                      [y \in 1..(Len(arrays[k]) - 1) |-> Append(acc[x], arrays[k][y])]]))

productF_m(arrays) == productLoopF_m(arrays, 1, << <<>> >>)

productF(arrays) == productLoopF(arrays, 1, << <<>> >>)

\* row.Days.split(','): the pieces between the commas
RECURSIVE SplitComma(_, _, _)
SplitComma(chars, k, piece) ==
    IF k > Len(chars) THEN <<piece>>
    ELSE IF chars[k] = "," THEN <<piece>> \o SplitComma(chars, k + 1, <<>>)
    ELSE SplitComma(chars, k + 1, Append(piece, chars[k]))

RECURSIVE TrimLeft(_)
TrimLeft(s) == IF s # <<>> /\ Head(s) = " " THEN TrimLeft(Tail(s)) ELSE s

RECURSIVE TrimRight(_)
TrimRight(s) ==
    IF s # <<>> /\ s[Len(s)] = " " THEN TrimRight(SubSeq(s, 1, Len(s) - 1)) ELSE s

Trim(s) == TrimRight(TrimLeft(s))

ToUpperCase(ch) ==
    CASE ch = "m" -> "M" [] ch = "t" -> "T" [] ch = "w" -> "W"
      [] ch = "r" -> "R" [] ch = "f" -> "F" [] OTHER -> ch

\* row.Days.split(',').map(d => d.trim()).filter(d => d), then
\* day.charAt(0).toUpperCase() of every piece
rowDaysF(daysStr) ==
    LET pieces == SplitComma(daysStr, 1, <<>>)
        trimmed == [i \in 1..Len(pieces) |-> Trim(pieces[i])]
        days == SelectSeq(trimmed, LAMBDA d : d # <<>>)
    IN  [i \in 1..Len(days) |-> ToUpperCase(days[i][1])]

\* allCoursesData.forEach(row => ...): fills sectionsData
RECURSIVE sectionsDataLoop(_, _, _, _)
sectionsDataLoop(allCoursesData, selectedCourseCodes, k, sectionsData) ==
    IF k > Len(allCoursesData) THEN sectionsData
    ELSE LET row == allCoursesData[k]
             baseCode == baseCodeF(row.Course)
             sectionId == FullCode(row.Course)
             prev == IF ObjHas(sectionsData, sectionId) THEN ObjGet(sectionsData, sectionId)
                     ELSE [courseCode |-> baseCode, timeslotsRaw |-> <<>>]
             days == rowDaysF(row.Days)
             added == [i \in 1..Len(days) |->
                         [day |-> days[i], start |-> row.StartTime, end |-> row.EndTime]]
         IN  sectionsDataLoop(allCoursesData, selectedCourseCodes, k + 1,
                IF Includes(selectedCourseCodes, baseCode)
                THEN ObjSet(sectionsData, sectionId,
                            [prev EXCEPT !.timeslotsRaw = prev.timeslotsRaw \o added])
                ELSE sectionsData)

\* new Timeslot(day, startTimeStr, endTimeStr)
Timeslot(day, startTimeStr, endTimeStr) ==
    [day |-> day, startTime |-> parseTimeF(startTimeStr),
     endTime |-> parseTimeF(endTimeStr)]

\* for (const sectionId in sectionsData) ...: courses[courseCode].push(section)
RECURSIVE coursesLoopF(_, _, _)
coursesLoopF(sectionsData, k, courses) ==
    IF k > Len(sectionsData) THEN courses
    ELSE LET data == sectionsData[k].val
             timeslots == [i \in 1..Len(data.timeslotsRaw) |->
                             Timeslot(data.timeslotsRaw[i].day, data.timeslotsRaw[i].start,
                                      data.timeslotsRaw[i].end)]
             section == [courseCode |-> data.courseCode, sectionId |-> sectionsData[k].key,
                         timeslots |-> timeslots]
         IN  coursesLoopF(sectionsData, k + 1,
                ObjSet(courses, data.courseCode,
                       Append(ObjGet(courses, data.courseCode), section)))

\* for (const code of selectedCourseCodes) courses[code] = []
RECURSIVE emptyCoursesF(_, _, _)
emptyCoursesF(selectedCourseCodes, k, courses) ==
    IF k > Len(selectedCourseCodes) THEN courses
    ELSE emptyCoursesF(selectedCourseCodes, k + 1,
                       ObjSet(courses, selectedCourseCodes[k], <<>>))

coursesF(allCoursesData, selectedCourseCodes) ==
    coursesLoopF(sectionsDataLoop(allCoursesData, selectedCourseCodes, 1, <<>>), 1,
                 emptyCoursesF(selectedCourseCodes, 1, <<>>))

\* the nested i < j loops with their two breaks
RECURSIVE hasConflictLoopF(_, _, _)
hasConflictLoopF(combo, i, j) ==
    IF i > Len(combo) THEN FALSE
    ELSE IF j > Len(combo) THEN hasConflictLoopF(combo, i + 1, i + 2)
    ELSE IF conflictsWithF(combo[i], combo[j]) THEN TRUE
    ELSE hasConflictLoopF(combo, i, j + 1)

hasConflictF(combo) == hasConflictLoopF(combo, 1, 2)

\* export function generateSchedules(allCoursesData, selectedCourseCodes)
generateSchedulesF(allCoursesData, selectedCourseCodes) ==
    LET courses == coursesF(allCoursesData, selectedCourseCodes)
        sectionGroups == SelectSeq(ObjValues(courses), LAMBDA group : Len(group) > 0)
    IN  IF Len(sectionGroups) # Len(selectedCourseCodes) THEN <<>>
        ELSE SelectSeq(productF(sectionGroups), LAMBDA combo : ~hasConflictF(combo))

\* courses[data.courseCode].push(section) throws a TypeError when courses has
\* no entry for the course code of a collected section
throwsLoopF(sectionsData, courses) ==
    \E k \in 1..Len(sectionsData) : ~ObjHas(courses, sectionsData[k].val.courseCode)

\* the collecting loop without the selectedCourseCodes.includes(baseCode) test
RECURSIVE sectionsDataLoop_m(_, _, _, _)
sectionsDataLoop_m(allCoursesData, selectedCourseCodes, k, sectionsData) ==
    IF k > Len(allCoursesData) THEN sectionsData
    ELSE LET row == allCoursesData[k]
             sectionId == FullCode(row.Course)
             prev == IF ObjHas(sectionsData, sectionId) THEN ObjGet(sectionsData, sectionId)
                     ELSE [courseCode |-> baseCodeF(row.Course), timeslotsRaw |-> <<>>]
         IN  sectionsDataLoop_m(allCoursesData, selectedCourseCodes, k + 1,
                                ObjSet(sectionsData, sectionId, prev))

\* mutant: every row is collected, selected or not
generateSchedulesThrowsF_m(allCoursesData, selectedCourseCodes) ==
    throwsLoopF(sectionsDataLoop_m(allCoursesData, selectedCourseCodes, 1, <<>>),
                emptyCoursesF(selectedCourseCodes, 1, <<>>))

\* whether generateSchedules(allCoursesData, selectedCourseCodes) throws
generateSchedulesThrowsF(allCoursesData, selectedCourseCodes) ==
    throwsLoopF(sectionsDataLoop(allCoursesData, selectedCourseCodes, 1, <<>>),
                emptyCoursesF(selectedCourseCodes, 1, <<>>))

\* ---- scoring (scheduler.js) ----
\* schedule.flatMap(sec => sec.timeslots)
allTimeslotsF(schedule) == Concat([i \in 1..Len(schedule) |-> schedule[i].timeslots])

countMorningClassesF(schedule, cutoff) ==
    Len(SelectSeq(allTimeslotsF(schedule), LAMBDA ts : JsLt(ts.startTime, cutoff)))

countEveningClassesF(schedule, cutoff) ==
    Len(SelectSeq(allTimeslotsF(schedule), LAMBDA ts : JsGt(ts.startTime, cutoff)))

countFridayClassesF(schedule) ==
    Len(SelectSeq(allTimeslotsF(schedule), LAMBDA ts : ts.day = "F"))

\* mutant: the days are counted without the Set
countDaysUsedF_m(schedule) == Len(allTimeslotsF(schedule))

countDaysUsedF(schedule) ==
    Cardinality({allTimeslotsF(schedule)[i].day : i \in 1..Len(allTimeslotsF(schedule))})

\* 1.5 / 60.0 hours, in ticks
MIN_GAP_TOLERANCE == 15

countBackToBackF(schedule) ==
    LET all == allTimeslotsF(schedule)
        slots == [i \in 1..Len(all) |-> <<all[i].day, all[i].startTime, all[i].endTime>>]
        dailyTimeslots == groupByDay(slots, 1, <<>>)
    IN  SumSeq([d \in 1..Len(dailyTimeslots) |->
                  adjacentCount(SortByStart(dailyTimeslots[d].val), MIN_GAP_TOLERANCE)])

\* what countBackToBack leaves in memory: the schedule it was given and its
\* own dailyTimeslots of fresh {start, end} objects, every list sorted in place
heapAfterCountBackToBackF(schedule) ==
    LET all == allTimeslotsF(schedule)
        slots == [i \in 1..Len(all) |-> <<all[i].day, all[i].startTime, all[i].endTime>>]
        pushed == groupByDay(slots, 1, <<>>)
    IN  [schedule |-> schedule,
         dailyTimeslots |->
            [d \in 1..Len(pushed) |->
                [key |-> pushed[d].key, val |-> SortByStart(pushed[d].val)]]]

\* a stable ascending sort of Timeslot objects on startTime
RECURSIVE SortTimeslotsF(_)
SortTimeslotsF(ts) ==
    IF Len(ts) < 2 THEN ts
    ELSE LET rest == SortTimeslotsF(Tail(ts))
             before == SelectSeq(rest, LAMBDA t : t.startTime < Head(ts).startTime)
             after == SelectSeq(rest, LAMBDA t : ~(t.startTime < Head(ts).startTime))
         IN  before \o <<Head(ts)>> \o after

\* mutant: the sort is applied to the timeslot list of every section
scheduleAfterScoreF_m(schedule, prefs) ==
    IF prefs.avoidB2B
    THEN [i \in 1..Len(schedule) |->
            [schedule[i] EXCEPT !.timeslots = SortTimeslotsF(schedule[i].timeslots)]]
    ELSE schedule

\* the schedule object after scoreSchedule(schedule, prefs) returned
scheduleAfterScoreF(schedule, prefs) ==
    IF prefs.avoidB2B THEN heapAfterCountBackToBackF(schedule).schedule
    ELSE schedule

\* mutant: the days-used term is assigned to the score instead of added
scoreScheduleF_m(schedule, prefs) ==
    LET s1 == IF prefs.noBefore
              THEN countMorningClassesF(schedule,
                                        parseTimeF(AppendWord(prefs.beforeTime, "AM")))
              ELSE 0
        s2 == IF prefs.noAfter
              THEN countEveningClassesF(schedule,
                                        parseTimeF(AppendWord(prefs.afterTime, "PM")))
              ELSE 0
        s3 == IF prefs.avoidFriday THEN countFridayClassesF(schedule) ELSE 0
        s4 == IF prefs.avoidB2B THEN countBackToBackF(schedule) ELSE 0
        s5 == IF prefs.minimizeDays THEN countDaysUsedF(schedule) ELSE 0
    IN  IF prefs.minimizeDays THEN s5 ELSE s1 + s2 + s3 + s4

scoreScheduleF(schedule, prefs) ==
    LET s1 == IF prefs.noBefore
              THEN countMorningClassesF(schedule,
                                        parseTimeF(AppendWord(prefs.beforeTime, "AM")))
              ELSE 0
        s2 == IF prefs.noAfter
              THEN countEveningClassesF(schedule,
                                        parseTimeF(AppendWord(prefs.afterTime, "PM")))
              ELSE 0
        s3 == IF prefs.avoidFriday THEN countFridayClassesF(schedule) ELSE 0
        s4 == IF prefs.avoidB2B THEN countBackToBackF(schedule) ELSE 0
        s5 == IF prefs.minimizeDays THEN countDaysUsedF(schedule) ELSE 0
    IN  s1 + s2 + s3 + s4 + s5

(***************************************************************************)
(*       FRONTEND: handleGenerateSchedules (components/Dashboard.jsx)      *)
(***************************************************************************)
\* scored.sort((a, b) => a.score - b.score): stable, ascending on the score
RECURSIVE InsertByScore(_, _)
InsertByScore(sorted, x) ==
    IF sorted = <<>> THEN <<x>>
    ELSE IF x.score < Head(sorted).score THEN <<x>> \o sorted
    ELSE <<Head(sorted)>> \o InsertByScore(Tail(sorted), x)

RECURSIVE SortByScore(_)
SortByScore(s) ==
    IF s = <<>> THEN <<>>
    ELSE InsertByScore(SortByScore(SubSeq(s, 1, Len(s) - 1)), s[Len(s)])

\* mutant: only the first schedule of the sorted list is kept
bestSchedulesF_m(schedules, prefs) ==
    LET scored == SortByScore([i \in 1..Len(schedules) |->
                     [schedule |-> schedules[i],
                      score |-> scoreScheduleF(schedules[i], prefs)]])
    IN  <<scored[1].schedule>>

bestSchedulesF(schedules, prefs) ==
    LET scored == SortByScore([i \in 1..Len(schedules) |->
                     [schedule |-> schedules[i],
                      score |-> scoreScheduleF(schedules[i], prefs)]])
        minScore == scored[1].score
        kept == SelectSeq(scored, LAMBDA s : s.score = minScore)
    IN  [i \in 1..Len(kept) |-> kept[i].schedule]

\* scripts of the plain-JS page: getPreferences reads the two time inputs
\* with split(':').map(Number) and hour + minute / 60
timeInputValue(t) ==
    IF t.kind = "clock" /\ t.mod = "" THEN t.h * TicksPerHour + t.m ELSE NaN

getPreferences(ui) ==
    [no_before |-> ui.noBefore,
     before_cutoff |-> timeInputValue(ui.beforeTime),
     no_after |-> ui.noAfter,
     after_cutoff |-> timeInputValue(ui.afterTime),
     avoid_friday |-> ui.avoidFriday,
     avoid_back_to_back |-> ui.avoidB2B,
     minimize_days |-> ui.minimizeDays]

(***************************************************************************)
(* scrape_courses of the backend scraper: coursesDict[code].sessions.push   *)
(* for every session row, in page order.                                   *)
(***************************************************************************)
RECURSIVE scrape_courses(_, _, _)
scrape_courses(rows, k, coursesDict) ==
    IF k > Len(rows) THEN coursesDict
    ELSE LET code == rows[k].Course
             prev == IF ObjHas(coursesDict, code) THEN ObjGet(coursesDict, code)
                     ELSE [sessions |-> <<>>]
             session == [days |-> rows[k].Days, start_time |-> rows[k].StartTime,
                         end_time |-> rows[k].EndTime]
         IN  scrape_courses(rows, k + 1,
                ObjSet(coursesDict, code,
                       [prev EXCEPT !.sessions = Append(prev.sessions, session)]))

(***************************************************************************)
(*                              THE MODEL                                  *)
(***************************************************************************)
VARIABLES
    client,           \* "http": a request to the backend; "react": the React page
    hasData,          \* backend: courseDataCache[semester] is set
    offering,         \* the meeting rows of the term: the scraped table (backend
                      \* cache, grouped by scrape_courses) / allCourses (React)
    selectedCourses,  \* the selected base course codes, in order
    prefs,            \* the preference form
    generated,        \* the list generateSchedules returned in the last run
    response,         \* backend: status and body of the last response
    bestSchedules,    \* React state
    scheduleIndex,    \* React state
    message,          \* React state
    unitArgs,         \* arguments of a direct call of one function of the engine
    unitResult,       \* which function was called last, and what it returned
    inFlight,         \* plain-JS page: responses of /api/generate-schedules not yet received
    courseDataCache,  \* server.js: courseDataCache, semester -> data
    dataFile,         \* server.js: contents of course_data.json
    requests,         \* /api/login-and-scrape: body, position and reply of each request
    retries,          \* Dashboard.jsx: argument of the pollForData call under way
    fetches,          \* Dashboard.jsx: GETs that pollForData has sent
    pollPc            \* Dashboard.jsx: where the scrape-and-poll chain stands

shell == <<inFlight, courseDataCache, dataFile, requests, retries, fetches, pollPc>>

vars == <<client, hasData, offering, selectedCourses, prefs, generated, response,
          bestSchedules, scheduleIndex, message, unitArgs, unitResult, shell>>

pipelineOut == <<generated, response, bestSchedules, scheduleIndex, message>>

inputs == <<client, hasData, offering, selectedCourses, prefs>>

\* ---- bounds and input sets ----
MaxRows == 2

Id(l, d, r) == [letters |-> l, digits |-> d, rest |-> r]
SectionIds == {Id("CS", "101", "-01"), Id("CS", "101", "-02"), Id("MA", "201", "-01")}
CourseCodes == {"CS101", "MA201", "PH301"}

HalfHour == 30 * TicksPerMinute

\* days field, start string, end string of a meeting
MonTen == <<(<<"M">>), Clock(10, 0, ""), Clock(11, 0, "")>>
MonHalfTen == <<(<<"M">>), Clock(10, HalfHour, ""), Clock(11, HalfHour, "")>>
MonFriEleven == <<(<<"M", ",", "F">>), Clock(11, 0, ""), Clock(12, 0, "")>>
FriTen == <<(<<"F">>), Clock(10, 0, ""), Clock(11, 0, "")>>
FriBlank == <<(<<"F">>), EmptyStr, EmptyStr>>
MonEleven == <<(<<"M">>), Clock(11, 0, ""), Clock(12, 0, "")>>

TermMeetings == {MonTen, MonHalfTen, MonFriEleven, FriTen}
FreeMeetings == {MonTen, MonFriEleven, FriBlank}

Row(id, m) == [Course |-> id, Days |-> m[1], StartTime |-> m[2], EndTime |-> m[3]]
Rows == {Row(id, m) : id \in SectionIds, m \in FreeMeetings}

SeqsUpTo(S, n) == UNION {[1..k -> S] : k \in 0..n}
NoRepeat(s) == \A i, j \in 1..Len(s) : i # j => s[i] # s[j]

\* a term table in page order: two sections of CS101, one of MA201, one of
\* PH301, each with one meeting row or not offered
TermIds == <<Id("CS", "101", "-01"), Id("CS", "101", "-02"), Id("MA", "201", "-01"),
             Id("PH", "301", "-01")>>
NotOffered == <<(<<>>), UndefinedStr, UndefinedStr>>
TermTables ==
    {LET rows == [i \in 1..Len(TermIds) |-> Row(TermIds[i], pick[i])]
     IN  SelectSeq(rows, LAMBDA r : r.Days # <<>>) :
        pick \in [1..Len(TermIds) -> TermMeetings \cup {NotOffered}]}

\* a term table with three sections of CS101 and two of MA201, all offered
WideIds == <<Id("CS", "101", "-01"), Id("CS", "101", "-02"), Id("CS", "101", "-03"),
             Id("MA", "201", "-01"), Id("MA", "201", "-02")>>
WideMeetings == {MonTen, MonEleven, MonFriEleven}
WideTables ==
    {[i \in 1..Len(WideIds) |-> Row(WideIds[i], pick[i])] :
        pick \in [1..Len(WideIds) -> WideMeetings]}
WideSelections == {<<"CS101">>, <<"CS101", "MA201">>, <<"MA201", "CS101">>}

\* a short table with day fields written without commas ("MWF", "TR") and a
\* section whose identifier has no letters-then-digits prefix ("LAB-A")
OddIds == {Id("CS", "101", "-01"), Id("LAB", "", "-A")}
MonWedFri == <<(<<"M", "W", "F">>), Clock(10, 0, ""), Clock(11, 0, "")>>
TueThu == <<(<<"T", "R">>), Clock(10, 0, ""), Clock(11, 0, "")>>
OddMeetings == {MonWedFri, TueThu}
OddTables ==
    {t \in SeqsUpTo({Row(id, m) : id \in OddIds, m \in OddMeetings}, 2) : Len(t) >= 1}
OddSelections == {<<"CS101">>, <<"LAB-A">>, <<"CS101", "LAB-A">>}

\* the form as the page starts it (beforeTime '11:00', afterTime '17:00') with
\* one box ticked
PipelineBoxes == {"noBefore", "avoidB2B", "avoidFriday"}
PipelinePrefs ==
    {[noBefore |-> box = "noBefore", beforeTime |-> Clock(11, 0, ""),
      noAfter |-> box = "noAfter", afterTime |-> Clock(17, 0, ""),
      avoidFriday |-> box = "avoidFriday", avoidB2B |-> box = "avoidB2B",
      minimizeDays |-> box = "minimizeDays"] : box \in PipelineBoxes}

NoResponse == [status |-> 0, body |-> <<>>]
NoArgs == [a |-> <<>>, b |-> <<>>, schedule |-> <<>>]
NoCall == [fn |-> "none", val |-> 0]

\* no request under way, an empty cache, no data file, no poll started
ShellIdle ==
    /\ inFlight = <<>>
    /\ courseDataCache = <<>>
    /\ dataFile = <<>>
    /\ requests = <<>>
    /\ retries = 0
    /\ fetches = 0
    /\ pollPc = "idle"

Init ==
    /\ client \in {"http", "react"}
    /\ hasData \in BOOLEAN
    /\ \/ /\ offering \in SeqsUpTo(Rows, MaxRows)
          /\ selectedCourses \in SeqsUpTo(CourseCodes, MaxRows)
       \/ /\ offering \in TermTables
          /\ selectedCourses \in SeqsUpTo(CourseCodes, Cardinality(CourseCodes))
          /\ NoRepeat(selectedCourses)
       \/ /\ offering \in WideTables
          /\ selectedCourses \in WideSelections
       \/ /\ offering \in OddTables
          /\ selectedCourses \in OddSelections
    /\ prefs \in PipelinePrefs
    /\ client = "react" => hasData /\ NoRepeat(selectedCourses)
    /\ ~hasData => offering = <<>>
    /\ generated = <<>>
    /\ response = NoResponse
    /\ bestSchedules = <<>>
    /\ scheduleIndex = 0
    /\ message = ""
    /\ unitArgs = NoArgs
    /\ unitResult = NoCall
    /\ ShellIdle

\* POST /api/generate-schedules
BackendGenerate ==
    /\ client = "http"
    /\ LET data == scrape_courses(offering, 1, <<>>)
           preferences == getPreferences(prefs)
       IN  /\ response' = generateSchedulesHandler(hasData, data, selectedCourses,
                                                   preferences)
           /\ generated' = IF hasData /\ Len(coursesToScheduleOf(data, selectedCourses)) > 0
                           THEN allSchedulesOf(data, selectedCourses)
                           ELSE <<>>
    /\ UNCHANGED <<inputs, bestSchedules, scheduleIndex, message, unitArgs, unitResult, shell>>

\* mutant: the new best schedules are added to the list of the last run
FrontendGenerate_m ==
    /\ client = "react"
    /\ IF Len(selectedCourses) = 0
       THEN /\ message' = "Please select courses to generate a schedule."
            /\ UNCHANGED <<generated, bestSchedules, scheduleIndex>>
       ELSE LET schedules == generateSchedulesF(offering, selectedCourses)
            IN  /\ generated' = schedules
                /\ IF Len(schedules) > 0
                   THEN /\ bestSchedules' = bestSchedules \o bestSchedulesF(schedules, prefs)
                        /\ scheduleIndex' = 0
                        /\ message' = "Found optimal schedule(s)."
                   ELSE /\ bestSchedules' = <<>>
                        /\ message' = "No conflict-free schedules could be generated."
                        /\ UNCHANGED scheduleIndex
    /\ UNCHANGED <<inputs, response, unitArgs, unitResult, shell>>

\* Dashboard.jsx handleGenerateSchedules
FrontendGenerate ==
    /\ client = "react"
    /\ IF Len(selectedCourses) = 0
       THEN /\ message' = "Please select courses to generate a schedule."
            /\ UNCHANGED <<generated, bestSchedules, scheduleIndex>>
       ELSE LET schedules == generateSchedulesF(offering, selectedCourses)
            IN  /\ generated' = schedules
                /\ IF Len(schedules) > 0
                   THEN /\ bestSchedules' = bestSchedulesF(schedules, prefs)
                        /\ scheduleIndex' = 0
                        /\ message' = "Found optimal schedule(s)."
                   ELSE /\ bestSchedules' = <<>>
                        /\ message' = "No conflict-free schedules could be generated."
                        /\ UNCHANGED scheduleIndex
    /\ UNCHANGED <<inputs, response, unitArgs, unitResult, shell>>

Next == BackendGenerate \/ FrontendGenerate

Spec == Init /\ [][Next]_vars


(***************************************************************************)
(*              DIRECT CALLS OF THE FUNCTIONS OF THE ENGINE                *)
(*                                                                         *)
(* A section is given by its meetings <<day, start string, end string>>    *)
(* and built the way each engine builds it.                                *)
(***************************************************************************)
\* processCourseData: timeslots.push([day, start_time, end_time, start, end])
SectionB(meetings) ==
    [course_code |-> "X", section_id |-> "X",
     timeslots |-> [i \in 1..Len(meetings) |->
                      <<meetings[i][1], meetings[i][2], meetings[i][3],
                        parseTimeB(meetings[i][2]), parseTimeB(meetings[i][3])>>]]

\* generateSchedules: data.timeslotsRaw.map(t => new Timeslot(...))
SectionF(meetings) ==
    [courseCode |-> "X", sectionId |-> "X",
     timeslots |-> [i \in 1..Len(meetings) |->
                      Timeslot(meetings[i][1], meetings[i][2], meetings[i][3])]]

\* "HH:MM" as hours + minutes / 60, in ticks
ClockTicks(t) == t.h * TicksPerHour + t.m
MeetOverlap(x, y) ==
    x[1] = y[1] /\ ClockTicks(x[3]) > ClockTicks(y[2]) /\ ClockTicks(y[3]) > ClockTicks(x[2])

unitFrame == <<client, hasData, offering, selectedCourses, prefs, generated, response,
               bestSchedules, scheduleIndex, message, unitArgs, shell>>

DefaultPrefs ==
    [noBefore |-> FALSE, beforeTime |-> Clock(11, 0, ""),
     noAfter |-> FALSE, afterTime |-> Clock(17, 0, ""),
     avoidFriday |-> FALSE, avoidB2B |-> FALSE, minimizeDays |-> FALSE]

\* ---- conflictsWith ----
MaxSlots == 2

ConflictSlots ==
    {<<d, iv[1], iv[2]>> :
        d \in {"M", "F"},
        iv \in {<<Clock(10, 0, ""), Clock(11, 0, "")>>,
                <<Clock(10, HalfHour, ""), Clock(11, HalfHour, "")>>,
                <<Clock(11, 0, ""), Clock(12, 0, "")>>}}

InitConflict ==
    /\ client = "unit"
    /\ hasData = FALSE
    /\ offering = <<>>
    /\ selectedCourses = <<>>
    /\ prefs = DefaultPrefs
    /\ generated = <<>>
    /\ response = NoResponse
    /\ bestSchedules = <<>>
    /\ scheduleIndex = 0
    /\ message = ""
    /\ unitArgs \in [a : SeqsUpTo(ConflictSlots, MaxSlots),
                     b : SeqsUpTo(ConflictSlots, MaxSlots),
                     schedule : {<<>>}]
    /\ unitResult = NoCall
    /\ ShellIdle

CallConflictsWithB ==
    /\ unitResult' = [fn |-> "conflictsWithB",
                      val |-> conflictsWithB(SectionB(unitArgs.a), SectionB(unitArgs.b))]
    /\ UNCHANGED unitFrame

CallConflictsWithF ==
    /\ unitResult' = [fn |-> "conflictsWithF",
                      val |-> conflictsWithF(SectionF(unitArgs.a), SectionF(unitArgs.b))]
    /\ UNCHANGED unitFrame

NextConflict == CallConflictsWithB \/ CallConflictsWithF

SpecConflict == InitConflict /\ [][NextConflict]_vars

\* ---- scoreSchedule ----
MaxSections == 2

OnePointFour == TicksPerMinute + 4
ScoreSections ==
    { << <<"M", Clock(10, 0, ""), Clock(11, 0, "")>> >>,
      << <<"M", Clock(11, 0, ""), Clock(12, 0, "")>> >>,
      << <<"M", Clock(11, OnePointFour, ""), Clock(12, 0, "")>> >>,
      << <<"M", Clock(11, 2 * TicksPerMinute, ""), Clock(12, 0, "")>> >>,
      << <<"M", Clock(12, 0, ""), Clock(13, 0, "")>> >>,
      << <<"F", Clock(10, 0, ""), Clock(11, 0, "")>> >>,
      << <<"F", Clock(12, HalfHour, ""), Clock(13, HalfHour, "")>> >>,
      << <<"M", Clock(12, 0, ""), Clock(13, 0, "")>>,
         <<"M", Clock(10, 0, ""), Clock(11, 0, "")>> >>,
      << <<"M", Clock(11, 0, ""), Clock(12, 0, "")>>,
         <<"F", Clock(11, 0, ""), Clock(12, 0, "")>> >> }

\* the schedules generateSchedules can hand to the scorer: no two sections overlap
ScoreSchedules ==
    {sch \in SeqsUpTo(ScoreSections, MaxSections) :
        /\ Len(sch) >= 1
        /\ \A i, j \in 1..Len(sch) : i # j =>
              \A x \in Range(sch[i]), y \in Range(sch[j]) : ~MeetOverlap(x, y)}

BeforeTimes == {Clock(11, 0, ""), Clock(12, HalfHour, "")}
AfterTimes == {Clock(17, 0, ""), Clock(11, 0, "")}
ScorePrefs ==
    [noBefore : BOOLEAN, beforeTime : BeforeTimes, noAfter : BOOLEAN,
     afterTime : AfterTimes, avoidFriday : BOOLEAN, avoidB2B : BOOLEAN,
     minimizeDays : BOOLEAN]

InitScore ==
    /\ client = "unit"
    /\ hasData = FALSE
    /\ offering = <<>>
    /\ selectedCourses = <<>>
    /\ prefs \in ScorePrefs
    /\ generated = <<>>
    /\ response = NoResponse
    /\ bestSchedules = <<>>
    /\ scheduleIndex = 0
    /\ message = ""
    /\ unitArgs \in [a : {<<>>}, b : {<<>>}, schedule : ScoreSchedules]
    /\ unitResult = NoCall
    /\ ShellIdle

scheduleB(sch) == [i \in 1..Len(sch) |-> SectionB(sch[i])]
scheduleF(sch) == [i \in 1..Len(sch) |-> SectionF(sch[i])]

CallScoreScheduleB ==
    /\ unitResult' = [fn |-> "scoreScheduleB",
                      val |-> scoreScheduleB(scheduleB(unitArgs.schedule),
                                             getPreferences(prefs)),
                      after |-> scheduleAfterScoreB(scheduleB(unitArgs.schedule),
                                                    getPreferences(prefs))]
    /\ UNCHANGED unitFrame

CallScoreScheduleF ==
    /\ unitResult' = [fn |-> "scoreScheduleF",
                      val |-> scoreScheduleF(scheduleF(unitArgs.schedule), prefs),
                      after |-> scheduleAfterScoreF(scheduleF(unitArgs.schedule), prefs)]
    /\ UNCHANGED unitFrame

NextScore == CallScoreScheduleB \/ CallScoreScheduleF

SpecScore == InitScore /\ [][NextScore]_vars

\* ---- parseTime ----
\* "HH:MM" for every hour of the day, "HH:MM AM" and "HH:MM PM" for the hours
\* of the 12-hour clock, and the strings that are not a time
TimeStrings ==
    {UndefinedStr, EmptyStr, TextStr}
    \cup {Clock(h, m, "") : h \in 0..23, m \in {0, HalfHour}}
    \cup {Clock(h, m, mod) : h \in 1..12, m \in {0, HalfHour}, mod \in {"AM", "PM"}}

InitTime ==
    /\ client = "unit"
    /\ hasData = FALSE
    /\ offering = <<>>
    /\ selectedCourses = <<>>
    /\ prefs = DefaultPrefs
    /\ generated = <<>>
    /\ response = NoResponse
    /\ bestSchedules = <<>>
    /\ scheduleIndex = 0
    /\ message = ""
    /\ unitArgs \in [a : {<<t>> : t \in TimeStrings}, b : {<<>>}, schedule : {<<>>}]
    /\ unitResult = NoCall
    /\ ShellIdle

CallParseTimeB ==
    /\ unitResult' = [fn |-> "parseTimeB", val |-> parseTimeB(unitArgs.a[1])]
    /\ UNCHANGED unitFrame

CallParseTimeF ==
    /\ unitResult' = [fn |-> "parseTimeF", val |-> parseTimeF(unitArgs.a[1])]
    /\ UNCHANGED unitFrame

NextTime == CallParseTimeB \/ CallParseTimeF

SpecTime == InitTime /\ [][NextTime]_vars

\* ---- combinations ----
MaxPool == 4

\* sections of one Monday meeting each
PoolSections == {<<slot>> : slot \in {c \in ConflictSlots : c[1] = "M"}}

InitCombinations ==
    /\ client = "unit"
    /\ hasData = FALSE
    /\ offering = <<>>
    /\ selectedCourses = <<>>
    /\ prefs = DefaultPrefs
    /\ generated = <<>>
    /\ response = NoResponse
    /\ bestSchedules = <<>>
    /\ scheduleIndex = 0
    /\ message = ""
    /\ unitArgs \in [a : SeqsUpTo(PoolSections, MaxPool), b : {<<>>}, schedule : {<<>>}]
    /\ unitResult = NoCall
    /\ ShellIdle

\* combinations(pool, 2) on a tuple of sections
CallCombinations ==
    /\ unitResult' = [fn |-> "combinations", val |-> combinations(scheduleB(unitArgs.a), 2)]
    /\ UNCHANGED unitFrame

\* generateSchedules(courses) on courses of one section each: the only tuple
\* is the pool itself
poolCourses(pool) ==
    [k \in 1..Len(pool) |-> [key |-> k, val |-> <<SectionB(pool[k])>>]]

CallGenerateSchedulesOnPool ==
    /\ unitResult' = [fn |-> "generateSchedulesB",
                      val |-> generateSchedulesB(poolCourses(unitArgs.a))]
    /\ UNCHANGED unitFrame

NextCombinations == CallCombinations \/ CallGenerateSchedulesOnPool

SpecCombinations == InitCombinations /\ [][NextCombinations]_vars

\* ---- generateSchedules ----
MaxGenRows == 2
MaxSelected == 3

GenRows == {Row(id, m) : id \in SectionIds, m \in {MonTen, MonHalfTen}}

InitGenerate ==
    /\ client = "unit"
    /\ hasData = FALSE
    /\ offering = <<>>
    /\ selectedCourses = <<>>
    /\ prefs = DefaultPrefs
    /\ generated = <<>>
    /\ response = NoResponse
    /\ bestSchedules = <<>>
    /\ scheduleIndex = 0
    /\ message = ""
    /\ unitArgs \in [a : SeqsUpTo(GenRows, MaxGenRows),
                     b : SeqsUpTo(CourseCodes, MaxSelected),
                     schedule : {<<>>}]
    /\ unitResult = NoCall
    /\ ShellIdle

\* scheduler.js generateSchedules(allCoursesData, selectedCourseCodes)
CallGenerateSchedulesF ==
    /\ unitResult' =
          [fn |-> "generateSchedulesF",
           threw |-> generateSchedulesThrowsF(unitArgs.a, unitArgs.b),
           val |-> IF generateSchedulesThrowsF(unitArgs.a, unitArgs.b) THEN <<>>
                   ELSE generateSchedulesF(unitArgs.a, unitArgs.b)]
    /\ UNCHANGED unitFrame

\* server.js: generateSchedules(coursesToSchedule), reached when
\* coursesToSchedule is not empty; product, combinations and conflictsWith
\* only read arrays the handler built, nothing in them throws
CallGenerateSchedulesB ==
    /\ Len(coursesToScheduleOf(scrape_courses(unitArgs.a, 1, <<>>), unitArgs.b)) > 0
    /\ unitResult' =
          [fn |-> "generateSchedulesB",
           threw |-> FALSE,
           val |-> allSchedulesOf(scrape_courses(unitArgs.a, 1, <<>>), unitArgs.b)]
    /\ UNCHANGED unitFrame

NextGenerate == CallGenerateSchedulesF \/ CallGenerateSchedulesB

SpecGenerate == InitGenerate /\ [][NextGenerate]_vars

(***************************************************************************)
(*                 THE TWO PAGES AROUND THE BEST SCHEDULES                  *)
(*                                                                         *)
(* The plain-JS page posts the selection and receives the best schedules   *)
(* later; the React dashboard computes them in the click.  Both let the    *)
(* user change the selection, step through the schedules and log out.      *)
(***************************************************************************)
MaxInFlight == 2

\* three sections of CS101 and two of MA201: in the first table three pairs
\* are free of conflict, in the second table none is
UIPicks == {<<MonTen, MonEleven, MonFriEleven, MonTen, MonEleven>>,
            <<MonTen, MonTen, MonTen, MonTen, MonTen>>}
UITables == {[i \in 1..Len(WideIds) |-> Row(WideIds[i], pick[i])] : pick \in UIPicks}
UISelections == {<<>>, <<"CS101">>, <<"MA201">>, <<"CS101", "MA201">>}

InitUI ==
    /\ client \in {"http", "react"}
    /\ hasData = TRUE
    /\ offering \in UITables
    /\ selectedCourses = <<>>
    /\ prefs \in PipelinePrefs
    /\ generated = <<>>
    /\ response = NoResponse
    /\ bestSchedules = <<>>
    /\ scheduleIndex = 0
    /\ message = ""
    /\ unitArgs = NoArgs
    /\ unitResult = NoCall
    /\ ShellIdle

uiFrame == <<client, hasData, offering, generated, response, unitArgs, unitResult,
             courseDataCache, dataFile, requests, retries, fetches, pollPc>>

RemoveAt(s, i) == SubSeq(s, 1, i - 1) \o SubSeq(s, i + 1, Len(s))
MaxInt(a, b) == IF a >= b THEN a ELSE b
MinInt(a, b) == IF a <= b THEN a ELSE b

\* the user changes the selection in the course list of either page
SelectCourses ==
    /\ \E sel \in UISelections :
          /\ sel # selectedCourses
          /\ selectedCourses' = sel
    /\ UNCHANGED <<uiFrame, prefs, bestSchedules, scheduleIndex, message, inFlight>>

\* plain-JS page, handleGenerateSchedules up to the await of fetch
PageGenerateSend ==
    /\ client = "http"
    /\ IF Len(selectedCourses) = 0
       THEN /\ message' = "Please select at least one course."
            /\ UNCHANGED inFlight
       ELSE /\ Len(inFlight) < MaxInFlight
            /\ message' = "Generating schedules..."
            /\ inFlight' = Append(inFlight,
                                  generateSchedulesHandler(hasData,
                                                           scrape_courses(offering, 1, <<>>),
                                                           selectedCourses,
                                                           getPreferences(prefs)))
    /\ UNCHANGED <<uiFrame, selectedCourses, prefs, bestSchedules, scheduleIndex>>

\* mutant: the index is left where it was when a result arrives
PageGenerateReceive_m ==
    /\ client = "http"
    /\ \E i \in 1..Len(inFlight) :
          /\ inFlight' = RemoveAt(inFlight, i)
          /\ \/ /\ inFlight[i].status = 200
                /\ bestSchedules' = inFlight[i].body
                /\ message' = IF Len(inFlight[i].body) > 0
                              THEN "Found optimal schedule(s)."
                              ELSE "No possible schedules found with the selected courses."
                /\ UNCHANGED scheduleIndex
             \/ /\ message' = "Error"
                /\ UNCHANGED <<bestSchedules, scheduleIndex>>
    /\ UNCHANGED <<uiFrame, selectedCourses, prefs>>

\* plain-JS page, handleGenerateSchedules from the await on: a response that
\* is ok replaces the list, a failed fetch or an error status only sets the
\* status line
PageGenerateReceive ==
    /\ client = "http"
    /\ \E i \in 1..Len(inFlight) :
          /\ inFlight' = RemoveAt(inFlight, i)
          /\ \/ /\ inFlight[i].status = 200
                /\ bestSchedules' = inFlight[i].body
                /\ IF Len(inFlight[i].body) > 0
                   THEN /\ message' = "Found optimal schedule(s)."
                        /\ scheduleIndex' = 0
                   ELSE /\ message' = "No possible schedules found with the selected courses."
                        /\ UNCHANGED scheduleIndex
             \/ /\ message' = "Error"
                /\ UNCHANGED <<bestSchedules, scheduleIndex>>
    /\ UNCHANGED <<uiFrame, selectedCourses, prefs>>

\* plain-JS page, navigateSchedules(-1) and navigateSchedules(1)
navigateSchedules ==
    /\ client = "http"
    /\ \E direction \in {0 - 1, 1} :
          IF Len(bestSchedules) = 0 THEN UNCHANGED scheduleIndex
          ELSE scheduleIndex' =
                  (scheduleIndex + direction + Len(bestSchedules)) % Len(bestSchedules)
    /\ UNCHANGED <<uiFrame, selectedCourses, prefs, bestSchedules, message, inFlight>>

\* plain-JS page, handleLogout
handleLogout ==
    /\ client = "http"
    /\ selectedCourses' = <<>>
    /\ bestSchedules' = <<>>
    /\ scheduleIndex' = 0
    /\ UNCHANGED <<uiFrame, prefs, message, inFlight>>

\* Dashboard.jsx, the Prev button: shown with a non-empty list, disabled at 0
PrevSchedule ==
    /\ client = "react"
    /\ Len(bestSchedules) > 0
    /\ scheduleIndex # 0
    /\ scheduleIndex' = MaxInt(0, scheduleIndex - 1)
    /\ UNCHANGED <<uiFrame, selectedCourses, prefs, bestSchedules, message, inFlight>>

\* Dashboard.jsx, the Next button: disabled at the last schedule
NextSchedule ==
    /\ client = "react"
    /\ Len(bestSchedules) > 0
    /\ scheduleIndex # Len(bestSchedules) - 1
    /\ scheduleIndex' = MinInt(Len(bestSchedules) - 1, scheduleIndex + 1)
    /\ UNCHANGED <<uiFrame, selectedCourses, prefs, bestSchedules, message, inFlight>>

\* App.jsx handleLogout: the Dashboard is unmounted, the next login mounts a
\* new one whose state is the useState defaults
DashboardRemount ==
    /\ client = "react"
    /\ selectedCourses' = <<>>
    /\ prefs' = DefaultPrefs
    /\ bestSchedules' = <<>>
    /\ scheduleIndex' = 0
    /\ message' = ""
    /\ UNCHANGED <<uiFrame, inFlight>>

NextUI ==
    \/ SelectCourses
    \/ PageGenerateSend
    \/ PageGenerateReceive
    \/ navigateSchedules
    \/ handleLogout
    \/ FrontendGenerate
    \/ PrevSchedule
    \/ NextSchedule
    \/ DashboardRemount

SpecUI == InitUI /\ [][NextUI]_vars

(***************************************************************************)
(*                 POST /api/login-and-scrape (server.js)                  *)
(*                                                                         *)
(* A request runs in up to three steps, separated by its two awaits:       *)
(* the checks before the scraper is built, verify_credentials, and run     *)
(* with the writes after it.  Requests interleave at the awaits.  The      *)
(* portal accepts the password "right"; the browser, the portal and the    *)
(* file system may fail at any call.                                       *)
(***************************************************************************)
MaxRequests == 2

Semesters == {"FA25", "SP26"}
Body(u, p, s, f) == [username |-> u, password |-> p, semester |-> s, forceScrape |-> f]
Bodies ==
    {Body("u", "right", s, f) : s \in Semesters, f \in BOOLEAN}
        \cup {Body("u", "wrong", "FA25", f) : f \in BOOLEAN}
        \cup {Body("", "right", "FA25", FALSE), Body("u", "", "FA25", FALSE),
              Body("u", "right", "", TRUE)}

\* what the portal shows when it is scraped: no row, or one row
PortalTables == {<<>>, <<Row(Id("CS", "101", "-01"), MonTen)>>}
ScrapedData == {scrape_courses(t, 1, <<>>) : t \in PortalTables}

\* loadDataFromFile: the cache starts with the first key of the file, if any
InitScrape ==
    /\ client = "http"
    /\ hasData = FALSE
    /\ offering = <<>>
    /\ selectedCourses = <<>>
    /\ prefs = DefaultPrefs
    /\ generated = <<>>
    /\ response = NoResponse
    /\ bestSchedules = <<>>
    /\ scheduleIndex = 0
    /\ message = ""
    /\ unitArgs = NoArgs
    /\ unitResult = NoCall
    /\ inFlight = <<>>
    /\ dataFile \in {<<>>} \cup {<<[key |-> "FA25", val |-> d]>> : d \in ScrapedData}
    /\ courseDataCache = dataFile
    /\ requests = <<>>
    /\ retries = 0
    /\ fetches = 0
    /\ pollPc = "idle"

scrapeFrame == <<client, hasData, offering, selectedCourses, prefs, generated, response,
                 bestSchedules, scheduleIndex, message, unitArgs, unitResult,
                 inFlight, retries, fetches, pollPc>>

Reply(req, status, error) == [req EXCEPT !.pc = "done", !.status = status, !.error = error]

\* lines 131-145: the 400, the answer from the cache, or the scraper is built
ReceiveLoginAndScrape ==
    /\ Len(requests) < MaxRequests
    /\ \E body \in Bodies :
          LET req == [body |-> body, pc |-> "verify", status |-> 0, error |-> "",
                      verified |-> FALSE, scraped |-> FALSE]
          IN  requests' = Append(requests,
                 IF body.username = "" \/ body.password = "" \/ body.semester = ""
                 THEN Reply(req, 400, "Username, password, and semester are required.")
                 ELSE IF ObjHas(courseDataCache, body.semester) /\ ~body.forceScrape
                      THEN Reply(req, 200, "")
                      ELSE req)
    /\ UNCHANGED <<scrapeFrame, courseDataCache, dataFile>>

\* lines 147-150 with verify_credentials: true, false on "Invalid credentials
\* provided.", any other failure is thrown on and answered with 500
VerifyCredentials ==
    /\ \E i \in 1..Len(requests) :
          /\ requests[i].pc = "verify"
          /\ \/ /\ requests[i].body.password = "right"
                /\ requests' = [requests EXCEPT ![i].pc = "run", ![i].verified = TRUE]
             \/ /\ requests[i].body.password # "right"
                /\ requests' = [requests EXCEPT ![i] = Reply(@, 401, "Invalid credentials.")]
             \/ requests' = [requests EXCEPT ![i] = Reply(@, 500, "scraper")]
    /\ UNCHANGED <<scrapeFrame, courseDataCache, dataFile>>

\* mutant: the cache entry is written when the scraper throws, too
RunAndSave_m ==
    \E i \in 1..Len(requests) :
        /\ requests[i].pc = "run"
        /\ \/ /\ requests' = [requests EXCEPT ![i] = Reply(@, 500, "scraper")]
              /\ courseDataCache' = ObjSet(courseDataCache, requests[i].body.semester, <<>>)
              /\ UNCHANGED dataFile
           \/ \E data \in ScrapedData :
                 /\ courseDataCache' = ObjSet(courseDataCache, requests[i].body.semester, data)
                 /\ \/ /\ dataFile' = <<[key |-> requests[i].body.semester, val |-> data]>>
                       /\ requests' = [requests EXCEPT
                                          ![i] = Reply([@ EXCEPT !.scraped = TRUE], 200, "")]
                    \/ /\ UNCHANGED dataFile
                       /\ requests' = [requests EXCEPT
                                          ![i] = Reply([@ EXCEPT !.scraped = TRUE], 500, "fs")]
        /\ UNCHANGED scrapeFrame

\* lines 152-164: run throws and the catch answers 500, or run returns the
\* data, the cache entry is set and the file is written ({[semester]: data});
\* writeFileSync may throw after the cache was set
RunAndSave ==
    \E i \in 1..Len(requests) :
        /\ requests[i].pc = "run"
        /\ \/ /\ requests' = [requests EXCEPT ![i] = Reply(@, 500, "scraper")]
              /\ UNCHANGED <<courseDataCache, dataFile>>
           \/ \E data \in ScrapedData :
                 /\ courseDataCache' = ObjSet(courseDataCache, requests[i].body.semester, data)
                 /\ \/ /\ dataFile' = <<[key |-> requests[i].body.semester, val |-> data]>>
                       /\ requests' = [requests EXCEPT
                                          ![i] = Reply([@ EXCEPT !.scraped = TRUE], 200, "")]
                    \/ /\ UNCHANGED dataFile
                       /\ requests' = [requests EXCEPT
                                          ![i] = Reply([@ EXCEPT !.scraped = TRUE], 500, "fs")]
        /\ UNCHANGED scrapeFrame

NextScrape == ReceiveLoginAndScrape \/ VerifyCredentials \/ RunAndSave

SpecScrape == InitScrape /\ [][NextScrape]_vars

(***************************************************************************)
(*        Dashboard.jsx: fetchCourseData and pollForData (useEffect)       *)
(*                                                                         *)
(* pollPc follows the chain from one await or timer to the next: "idle",   *)
(* "getting" (the first GET), "posting" (the POST that starts the scrape), *)
(* "polling" (a GET of pollForData), "waiting" (the 5 s retry timer),      *)
(* and the ends "loaded", "failed", "stored", "timedOut".  Every request   *)
(* may succeed or fail.                                                    *)
(***************************************************************************)
DefaultRetries == 5

TimedOut == "Scraping timed out. Please refresh and try again."
Retrieved == "Course data retrieved successfully!"

\* what the server may hold for the semester when a GET succeeds
CourseTables == OddTables

InitPoll ==
    /\ client = "react"
    /\ hasData = FALSE
    /\ offering = <<>>
    /\ selectedCourses = <<>>
    /\ prefs = DefaultPrefs
    /\ generated = <<>>
    /\ response = NoResponse
    /\ bestSchedules = <<>>
    /\ scheduleIndex = 0
    /\ message = ""
    /\ unitArgs = NoArgs
    /\ unitResult = NoCall
    /\ ShellIdle

pollFrame == <<client, selectedCourses, prefs, generated, response, bestSchedules,
               scheduleIndex, unitArgs, unitResult, inFlight, courseDataCache, dataFile,
               requests>>

\* fetchCourseData up to its first await
fetchCourseData ==
    /\ pollPc = "idle"
    /\ message' = "Retrieving course data..."
    /\ pollPc' = "getting"
    /\ UNCHANGED <<pollFrame, hasData, offering, retries, fetches>>

\* pollForData(n) up to its await: the timed-out message at 0, a GET otherwise
pollForData(n) ==
    /\ retries' = n
    /\ IF n = 0
       THEN /\ message' = TimedOut
            /\ pollPc' = "timedOut"
            /\ UNCHANGED fetches
       ELSE /\ pollPc' = "polling"
            /\ fetches' = fetches + 1
            /\ UNCHANGED message

\* fetchCourseData after the first GET: the data, a 404, or another failure
FirstGetReturns ==
    /\ pollPc = "getting"
    /\ \/ \E data \in CourseTables :
             /\ offering' = data
             /\ hasData' = TRUE
             /\ message' = ""
             /\ pollPc' = "loaded"
       \/ /\ message' = "Course data not found. Scraping for the first time..."
          /\ pollPc' = "posting"
          /\ UNCHANGED <<offering, hasData>>
       \/ /\ message' = "Failed to load course data."
          /\ pollPc' = "failed"
          /\ UNCHANGED <<offering, hasData>>
    /\ UNCHANGED <<pollFrame, retries, fetches>>

\* fetchCourseData after the POST: pollForData() with the default, or the catch
ScrapePostReturns ==
    /\ pollPc = "posting"
    /\ \/ pollForData(DefaultRetries)
       \/ /\ message' = "Failed to start scraping process."
          /\ pollPc' = "failed"
          /\ UNCHANGED <<retries, fetches>>
    /\ UNCHANGED <<pollFrame, hasData, offering>>

\* pollForData after its GET: the data is stored, or the retry timer is set
PollGetReturns ==
    /\ pollPc = "polling"
    /\ \/ \E data \in CourseTables :
             /\ offering' = data
             /\ hasData' = TRUE
             /\ message' = Retrieved
             /\ pollPc' = "stored"
       \/ /\ pollPc' = "waiting"
          /\ UNCHANGED <<offering, hasData, message>>
    /\ UNCHANGED <<pollFrame, retries, fetches>>

\* mutant: the retry passes the same count on
RetryTimer_m ==
    /\ pollPc = "waiting"
    /\ pollForData(retries)
    /\ UNCHANGED <<pollFrame, hasData, offering>>

\* setTimeout(() => pollForData(retries - 1), 5000) fires
RetryTimer ==
    /\ pollPc = "waiting"
    /\ pollForData(retries - 1)
    /\ UNCHANGED <<pollFrame, hasData, offering>>

\* setTimeout(() => setMessage(''), 3000) fires
ClearMessage ==
    /\ pollPc = "stored"
    /\ message = Retrieved
    /\ message' = ""
    /\ UNCHANGED <<pollFrame, hasData, offering, retries, fetches, pollPc>>

NextPoll ==
    \/ fetchCourseData
    \/ FirstGetReturns
    \/ ScrapePostReturns
    \/ PollGetReturns
    \/ RetryTimer
    \/ ClearMessage

SpecPoll == InitPoll /\ [][NextPoll]_vars

(***************************************************************************)
(*                    WHAT THE CLAIMS ARE STATED WITH                      *)
(***************************************************************************)
PleaseSelect == "Please select courses to generate a schedule."

\* generateSchedules was called in the last run
GenRan ==
    \/ client = "http" /\ response.status = 200
    \/ client = "react" /\ message \notin {"", PleaseSelect}

\* the handler returned
HandlerRan ==
    \/ client = "http" /\ response.status # 0
    \/ client = "react" /\ message # ""

\* the day, start and end of the timeslots of a section, whichever engine built it
SlotsOf(section) ==
    IF client = "http"
    THEN {[day |-> ts[1], start |-> ts[4], end |-> ts[5]] : ts \in Range(section.timeslots)}
    ELSE {[day |-> ts.day, start |-> ts.startTime, end |-> ts.endTime] :
             ts \in Range(section.timeslots)}

CodeOf(section) == IF client = "http" THEN section.course_code ELSE section.courseCode

\* two sections meet at overlapping times on some day
Overlap(x, y) == x.day = y.day /\ JsGt(x.end, y.start) /\ JsGt(y.end, x.start)
Overlaps(a, b) == \E x \in SlotsOf(a), y \in SlotsOf(b) : Overlap(x, y)
ConflictFree(t) == \A i, j \in 1..Len(t) : i # j => ~Overlaps(t[i], t[j])

\* the catalog the engine works from and the sections it holds for a code
Catalog ==
    IF client = "http" THEN processCourseData(scrape_courses(offering, 1, <<>>))
    ELSE coursesF(offering, selectedCourses)
CatalogSections(code) ==
    IF ObjHas(Catalog, code) THEN Range(ObjGet(Catalog, code)) ELSE {}

\* the selected codes without repetitions, in the order of first selection
RECURSIVE Dedup(_, _)
Dedup(s, seen) ==
    IF s = <<>> THEN <<>>
    ELSE IF Head(s) \in seen THEN Dedup(Tail(s), seen)
    ELSE <<Head(s)>> \o Dedup(Tail(s), seen \cup {Head(s)})
SelectedCodes == Dedup(selectedCourses, {})

\* every way to take one section per selected course
RECURSIVE TupleSet(_)
TupleSet(sets) ==
    IF sets = <<>> THEN {<<>>}
    ELSE {<<x>> \o t : x \in Head(sets), t \in TupleSet(Tail(sets))}
AllTuples == TupleSet([i \in 1..Len(SelectedCodes) |-> CatalogSections(SelectedCodes[i])])

(***************************************************************************)
(* C1  Conflict soundness: no schedule returned by generateSchedules        *)
(* holds two distinct sections that meet at overlapping times on a day.     *)
(***************************************************************************)
C1_ConflictSoundness ==
    \A k \in 1..Len(generated) : ConflictFree(generated[k])

\* a run that kept a schedule of three sections and rejected another tuple
C1_Witness ==
    /\ GenRan
    /\ Len(generated) >= 1
    /\ Len(generated[1]) = 3
    /\ Len(generated) < Cardinality(AllTuples)

(***************************************************************************)
(* C2  Conflict completeness: every tuple of one section per selected       *)
(* course in which no two sections overlap is in the output; a tuple is     *)
(* left out only if two of its sections overlap.                            *)
(***************************************************************************)
C2_ConflictCompleteness ==
    GenRan => \A t \in AllTuples : ConflictFree(t) => t \in Range(generated)

\* a run of the React engine that kept a tuple of three sections and rejected
\* another
C2_Witness ==
    /\ GenRan
    /\ client = "react"
    /\ \E t \in AllTuples : Len(t) = 3 /\ ConflictFree(t) /\ t \in Range(generated)
    /\ \E t \in AllTuples : ~ConflictFree(t) /\ t \notin Range(generated)

(***************************************************************************)
(* C4  If a selected course code is absent from the catalog or has an       *)
(* empty section list, generation returns an empty list.                    *)
(***************************************************************************)
C4_MissingCourseGivesEmpty ==
    HandlerRan =>
        ((\E i \in 1..Len(selectedCourses) : CatalogSections(selectedCourses[i]) = {})
            => generated = <<>>)

(***************************************************************************)
(* C5  Cardinality: every schedule of the output has as many sections as    *)
(* there are distinct selected codes, exactly one per selected code.        *)
(***************************************************************************)
C5_Cardinality ==
    \A k \in 1..Len(generated) :
        /\ Len(generated[k]) = Cardinality(Range(selectedCourses))
        /\ \A code \in Range(selectedCourses) :
              Cardinality({i \in 1..Len(generated[k]) : CodeOf(generated[k][i]) = code}) = 1

(***************************************************************************)
(* C3  conflictsWith(a, b) is true exactly when a timeslot of a and a       *)
(* timeslot of b are on the same day with a.end > b.start and               *)
(* b.end > a.start; timeslots that only touch do not conflict.              *)
(***************************************************************************)
ConflictCalled == unitResult.fn \in {"conflictsWithB", "conflictsWithF"}

C3_ConflictsWithIff ==
    ConflictCalled =>
        (unitResult.val <=> \E x \in Range(unitArgs.a), y \in Range(unitArgs.b) :
                               MeetOverlap(x, y))

\* a call on two timeslots of the same day that touch at an endpoint: no conflict
C3_Witness ==
    /\ ConflictCalled
    /\ Len(unitArgs.a) = 1 /\ Len(unitArgs.b) = 1
    /\ unitArgs.a[1][1] = unitArgs.b[1][1]
    /\ ClockTicks(unitArgs.a[1][3]) = ClockTicks(unitArgs.b[1][2])
    /\ unitResult.val = FALSE

(***************************************************************************)
(* C6  Selection returns exactly the schedules whose score is the minimum   *)
(* over the generated schedules, in their order in the generated list.      *)
(***************************************************************************)
Best == IF client = "http" THEN response.body ELSE bestSchedules
ScoreOf(schedule) ==
    IF client = "http" THEN scoreScheduleB(schedule, getPreferences(prefs))
    ELSE scoreScheduleF(schedule, prefs)
PosIn(list, x) == CHOOSE k \in 1..Len(list) : list[k] = x

C6_TieOptimalSet ==
    (GenRan /\ generated # <<>>) =>
        /\ \A s \in Range(generated) :
              s \in Range(Best) <=> \A t \in Range(generated) : ScoreOf(s) <= ScoreOf(t)
        /\ Range(Best) \subseteq Range(generated)
        /\ \A i, j \in 1..Len(Best) :
              i < j => PosIn(generated, Best[i]) < PosIn(generated, Best[j])

\* two schedules share the minimum and a third one scores more
C6_Witness ==
    /\ GenRan
    /\ Len(Best) >= 2
    /\ Len(Best) < Len(generated)

(***************************************************************************)
(* C7  The score is the sum of five separately gated terms: it equals the   *)
(* sum of the scores obtained with each ticked box alone, it is 0 with no   *)
(* box ticked, and a cutoff whose box is not ticked does not change it.     *)
(***************************************************************************)
ScoreCalled == unitResult.fn \in {"scoreScheduleB", "scoreScheduleF"}

ScoreWith(p) ==
    IF unitResult.fn = "scoreScheduleB"
    THEN scoreScheduleB(scheduleB(unitArgs.schedule), getPreferences(p))
    ELSE scoreScheduleF(scheduleF(unitArgs.schedule), p)

Boxes == {"noBefore", "noAfter", "avoidFriday", "avoidB2B", "minimizeDays"}
Ticked(p) == {box \in Boxes : p[box]}
Only(p, keep) ==
    [p EXCEPT !.noBefore = @ /\ "noBefore" \in keep,
              !.noAfter = @ /\ "noAfter" \in keep,
              !.avoidFriday = @ /\ "avoidFriday" \in keep,
              !.avoidB2B = @ /\ "avoidB2B" \in keep,
              !.minimizeDays = @ /\ "minimizeDays" \in keep]

RECURSIVE SumOver(_, _)
SumOver(S, p) ==
    IF S = {} THEN 0
    ELSE LET box == CHOOSE b \in S : TRUE
         IN  ScoreWith(Only(p, {box})) + SumOver(S \ {box}, p)

OtherCutoffs == {Clock(h, m, "") : h \in {0, 9, 12, 13, 23}, m \in {0, HalfHour}}

C7_ScoreIsGatedSum ==
    ScoreCalled =>
        /\ unitResult.val = SumOver(Ticked(prefs), prefs)
        /\ Ticked(prefs) = {} => unitResult.val = 0
        /\ ~prefs.noBefore =>
              \A c \in OtherCutoffs : ScoreWith([prefs EXCEPT !.beforeTime = c]) = unitResult.val
        /\ ~prefs.noAfter =>
              \A c \in OtherCutoffs : ScoreWith([prefs EXCEPT !.afterTime = c]) = unitResult.val

\* a schedule scored with three boxes ticked, each adding to the score, and
\* the noBefore box not ticked
C7_Witness ==
    /\ ScoreCalled
    /\ Ticked(prefs) = {"avoidFriday", "avoidB2B", "minimizeDays"}
    /\ \A box \in Ticked(prefs) : ScoreWith(Only(prefs, {box})) > 0
    /\ unitResult.val >= 4

(***************************************************************************)
(* C8  With avoidBackToBack alone the score is, summed over the weekdays,   *)
(* the number of timeslots that start less than 1.5 minutes after the end   *)
(* of the timeslot before them in the day's order of starts: a gap of 0 or  *)
(* 1.4 minutes counts 1, a gap of 2 minutes counts 0.                       *)
(***************************************************************************)
\* the meetings of the scored schedule as [day, start, end] in ticks
ScoredSlots ==
    {[day |-> m[1], start |-> ClockTicks(m[2]), end |-> ClockTicks(m[3])] :
        m \in UNION {Range(unitArgs.schedule[i]) : i \in 1..Len(unitArgs.schedule)}}

PrevOf(t) ==
    {p \in ScoredSlots :
        /\ p.day = t.day /\ p.start < t.start
        /\ ~\E q \in ScoredSlots : q.day = t.day /\ p.start < q.start /\ q.start < t.start}

\* 1.5 minutes is 3 half minutes
BackToBack(p, t) == 2 * (t.start - p.end) < 3 * TicksPerMinute

OnlyB2B == Ticked(prefs) = {"avoidB2B"}

C8_BackToBackCount ==
    (ScoreCalled /\ OnlyB2B) =>
        /\ unitResult.val =
              Cardinality({t \in ScoredSlots : \E p \in PrevOf(t) : BackToBack(p, t)})
        /\ \A p, t \in ScoredSlots :
              (ScoredSlots = {p, t} /\ p.day = t.day /\ p.start < t.start) =>
                 /\ t.start - p.end \in {0, OnePointFour} => unitResult.val = 1
                 /\ t.start - p.end = 2 * TicksPerMinute => unitResult.val = 0

\* the 1.4-minute gap, scored 1, with the later timeslot first in the schedule
C8_Witness ==
    /\ ScoreCalled /\ OnlyB2B
    /\ \E p, t \in ScoredSlots :
          /\ ScoredSlots = {p, t} /\ p.day = t.day
          /\ t.start - p.end = OnePointFour
          /\ ClockTicks(unitArgs.schedule[1][1][2]) = t.start
    /\ unitResult.val = 1

(***************************************************************************)
(* C9  Back-to-back boundary: two sections of different courses with one    *)
(* timeslot each on the same day, a.end = b.start, are kept together by     *)
(* generation, and the pair scores exactly 1 under avoidBackToBack.         *)
(***************************************************************************)
Touch(x, y) == x.day = y.day /\ (x.end = y.start \/ y.end = x.start)
SameDayPairs(a, b) == {<<x, y>> \in SlotsOf(a) \X SlotsOf(b) : x.day = y.day}
OneDayEach(a) == \A x, y \in SlotsOf(a) : x.day = y.day => x = y

\* exactly one timeslot of a and one of b share a day, and they touch
TouchingPair(a, b) ==
    /\ OneDayEach(a) /\ OneDayEach(b)
    /\ Cardinality(SlotsOf(a)) = Len(a.timeslots)
    /\ Cardinality(SlotsOf(b)) = Len(b.timeslots)
    /\ Cardinality(SameDayPairs(a, b)) = 1
    /\ \A pr \in SameDayPairs(a, b) : Touch(pr[1], pr[2]) /\ pr[1].start < pr[1].end
                                                           /\ pr[2].start < pr[2].end

B2BScoreOf(schedule) ==
    IF client = "http"
    THEN scoreScheduleB(schedule, getPreferences([DefaultPrefs EXCEPT !.avoidB2B = TRUE]))
    ELSE scoreScheduleF(schedule, [DefaultPrefs EXCEPT !.avoidB2B = TRUE])

C9_BackToBackBoundary ==
    (GenRan /\ Len(SelectedCodes) = 2) =>
        \A a \in CatalogSections(SelectedCodes[1]), b \in CatalogSections(SelectedCodes[2]) :
            TouchingPair(a, b) =>
                /\ <<a, b>> \in Range(generated)
                /\ B2BScoreOf(<<a, b>>) = 1

\* a run of each kind that kept such a pair
C9_Witness ==
    /\ GenRan /\ Len(SelectedCodes) = 2
    /\ \E a \in CatalogSections(SelectedCodes[1]), b \in CatalogSections(SelectedCodes[2]) :
          /\ TouchingPair(a, b)
          /\ Len(a.timeslots) = 1 /\ Len(b.timeslots) = 1
          /\ <<a, b>> \in Range(generated)

(***************************************************************************)
(* C10  With noBefore alone the score is the number of timeslots whose      *)
(* start is strictly less than the cutoff the caller supplied, whatever     *)
(* the cutoff.                                                              *)
(***************************************************************************)
\* timeslots of the scored schedule, one index pair per timeslot
ScoredSlotIndexes ==
    UNION {{<<i, j>> : j \in 1..Len(unitArgs.schedule[i])} :
              i \in 1..Len(unitArgs.schedule)}

C10_NoBeforeCount ==
    (ScoreCalled /\ Ticked(prefs) = {"noBefore"}) =>
        unitResult.val =
            Cardinality({ij \in ScoredSlotIndexes :
                            ClockTicks(unitArgs.schedule[ij[1]][ij[2]][2])
                                < ClockTicks(prefs.beforeTime)})

(***************************************************************************)
(* C11  With noAfter alone the score is the number of timeslots whose       *)
(* start is strictly greater than the cutoff the caller supplied, whatever  *)
(* the cutoff, cutoffs before noon included.                                *)
(***************************************************************************)
C11_NoAfterCount ==
    (ScoreCalled /\ Ticked(prefs) = {"noAfter"}) =>
        unitResult.val =
            Cardinality({ij \in ScoredSlotIndexes :
                            ClockTicks(unitArgs.schedule[ij[1]][ij[2]][2])
                                > ClockTicks(prefs.afterTime)})

(***************************************************************************)
(* C12  With avoidFriday alone the score of a schedule is its number of     *)
(* timeslots on day 'F', and the selection returns exactly the generated    *)
(* schedules with the fewest of them: when one generated schedule uses      *)
(* Friday and another does not, no returned schedule uses Friday.           *)
(***************************************************************************)
FridaySlots(schedule) ==
    {ij \in UNION {{<<i, j>> : j \in 1..Len(schedule[i].timeslots)} : i \in 1..Len(schedule)} :
        LET ts == schedule[ij[1]].timeslots[ij[2]]
        IN  (IF client = "http" THEN ts[1] ELSE ts.day) = "F"}
Fridays(schedule) == Cardinality(FridaySlots(schedule))

OnlyFriday == Ticked(prefs) = {"avoidFriday"}

C12_AvoidFriday ==
    (GenRan /\ OnlyFriday) =>
        /\ \A s \in Range(generated) : ScoreOf(s) = Fridays(s)
        /\ \A s \in Range(generated) :
              s \in Range(Best) <=> \A t \in Range(generated) : Fridays(s) <= Fridays(t)
        /\ (\E s \in Range(generated) : Fridays(s) = 0) =>
              \A s \in Range(Best) : Fridays(s) = 0

\* one generated schedule meets on Friday, another does not, and only
\* schedules without Friday are returned
C12_Witness ==
    /\ GenRan /\ OnlyFriday
    /\ \E s, t \in Range(generated) : Fridays(s) > 0 /\ Fridays(t) = 0
    /\ Best # <<>>
    /\ \A s \in Range(Best) : Fridays(s) = 0

(***************************************************************************)
(* C13  With minimizeDays ticked the score is the score without it plus     *)
(* the number of distinct weekdays on which a timeslot of the schedule      *)
(* falls; several timeslots on one day count once.                          *)
(***************************************************************************)
DaysUsed == {t.day : t \in ScoredSlots}

C13_MinimizeDays ==
    (ScoreCalled /\ prefs.minimizeDays) =>
        /\ unitResult.val =
              ScoreWith([prefs EXCEPT !.minimizeDays = FALSE]) + Cardinality(DaysUsed)
        /\ Ticked(prefs) = {"minimizeDays"} => unitResult.val = Cardinality(DaysUsed)

\* four timeslots on two days, scored 2 with minimizeDays alone
C13_Witness ==
    /\ ScoreCalled
    /\ Ticked(prefs) = {"minimizeDays"}
    /\ Cardinality(ScoredSlotIndexes) = 4
    /\ Cardinality(DaysUsed) = 2
    /\ unitResult.val = 2

(***************************************************************************)
(* C14  When generation returns no schedule, selection gives the empty      *)
(* list as a normal result: the backend answers 200 with [], the React      *)
(* page sets bestSchedules to [] and reports that none was found.           *)
(***************************************************************************)
NoneGenerated == "No conflict-free schedules could be generated."

\* the handler got as far as calling generateSchedules
GenCalled ==
    \/ /\ client = "http" /\ response.status # 0 /\ hasData
       /\ \E i \in 1..Len(selectedCourses) : CatalogSections(selectedCourses[i]) # {}
    \/ client = "react" /\ message # "" /\ Len(selectedCourses) > 0

C14_EmptySelection ==
    (GenCalled /\ generated = <<>>) =>
        /\ Best = <<>>
        /\ client = "http" => response.status = 200
        /\ client = "react" => message = NoneGenerated

\* every selected course has sections, and every tuple of them has a conflict
C14_Witness ==
    /\ GenCalled /\ generated = <<>>
    /\ Len(SelectedCodes) >= 2
    /\ AllTuples # {}
    /\ Best = <<>>

(***************************************************************************)
(* C15  The generated list is in product-enumeration order: the sections    *)
(* of a schedule follow the order in which their codes were supplied, and   *)
(* of two schedules the one whose section comes first in the table, at the  *)
(* first position where they differ, comes first (the first-supplied        *)
(* course varies slowest).                                                  *)
(***************************************************************************)
IdOf(section) == IF client = "http" THEN section.section_id ELSE section.sectionId

\* the first row of the table that belongs to a section
FirstRow(section) ==
    CHOOSE k \in 1..Len(offering) :
        /\ FullCode(offering[k].Course) = IdOf(section)
        /\ \A m \in 1..(k - 1) : FullCode(offering[m].Course) # IdOf(section)

CodePos(code) == CHOOSE k \in 1..Len(SelectedCodes) : SelectedCodes[k] = code

LexBefore(s, t) ==
    \E k \in 1..Len(s) :
        /\ \A m \in 1..(k - 1) : s[m] = t[m]
        /\ FirstRow(s[k]) < FirstRow(t[k])

C15_ProductOrder ==
    /\ \A n \in 1..Len(generated) : \A k, l \in 1..Len(generated[n]) :
          k < l => CodePos(CodeOf(generated[n][k])) < CodePos(CodeOf(generated[n][l]))
    /\ \A i, j \in 1..Len(generated) : i < j => LexBefore(generated[i], generated[j])

\* four schedules over two courses, each course with two sections in them
C15_Witness ==
    /\ GenRan
    /\ Len(SelectedCodes) = 2
    /\ Len(generated) >= 4
    /\ \E i, j \in 1..Len(generated) :
          generated[i][1] # generated[j][1] /\ generated[i][2] # generated[j][2]

(***************************************************************************)
(* C16  The catalog builder gives a section one timeslot per weekday        *)
(* character of the days field of each of its rows, separators removed      *)
(* ("MWF" gives M, W, F and "TR" gives T, R), each with the start and end   *)
(* of the row.                                                              *)
(***************************************************************************)
Weekdays == {"M", "T", "W", "R", "F"}
PlainClock(t) == t.kind = "clock" /\ t.mod = "" /\ ClockTicks(t) # 0

AllSections == UNION {Range(Catalog[k].val) : k \in 1..Len(Catalog)}
SlotSeq(section) ==
    [i \in 1..Len(section.timeslots) |->
        IF client = "http"
        THEN [day |-> section.timeslots[i][1], start |-> section.timeslots[i][4],
              end |-> section.timeslots[i][5]]
        ELSE [day |-> section.timeslots[i].day, start |-> section.timeslots[i].startTime,
              end |-> section.timeslots[i].endTime]]

RowsOf(sectionId) == SelectSeq(offering, LAMBDA r : FullCode(r.Course) = sectionId)
RowSlots(r) ==
    LET days == SelectSeq(r.Days, LAMBDA ch : ch \in Weekdays)
    IN  [i \in 1..Len(days) |->
            [day |-> days[i], start |-> ClockTicks(r.StartTime), end |-> ClockTicks(r.EndTime)]]
ExpectedSlots(sectionId) ==
    Concat([k \in 1..Len(RowsOf(sectionId)) |-> RowSlots(RowsOf(sectionId)[k])])

C16_DaysExpansion ==
    HandlerRan =>
        \A section \in AllSections :
            (\A r \in Range(RowsOf(IdOf(section))) :
                PlainClock(r.StartTime) /\ PlainClock(r.EndTime))
            => SlotSeq(section) = ExpectedSlots(IdOf(section))

(***************************************************************************)
(* C17  Every section of the catalog has at least one timeslot, and no      *)
(* timeslot of the catalog has a start or an end of 0.                      *)
(***************************************************************************)
C17_NoZeroTimeslots ==
    HandlerRan =>
        \A section \in AllSections :
            /\ section.timeslots # <<>>
            /\ \A i \in 1..Len(section.timeslots) :
                  SlotSeq(section)[i].start # 0 /\ SlotSeq(section)[i].end # 0

(***************************************************************************)
(* C18  The base code of a section identifier is its leading letters and    *)
(* digits, or the whole identifier when it has no such prefix; its section  *)
(* is in the catalog under that code and, when that code alone is           *)
(* selected, in a generated schedule.                                       *)
(***************************************************************************)
BaseCode(id) == IF RegexMatches(id) THEN id.letters \o id.digits ELSE FullCode(id)

C18_BaseCode ==
    HandlerRan =>
        \A r \in Range(offering) :
            (/\ PlainClock(r.StartTime) /\ PlainClock(r.EndTime)
             /\ \E ch \in Range(r.Days) : ch \in Weekdays
             /\ Includes(selectedCourses, BaseCode(r.Course)))
            => /\ \E section \in CatalogSections(BaseCode(r.Course)) :
                     IdOf(section) = FullCode(r.Course)
               /\ \A section \in AllSections :
                     IdOf(section) = FullCode(r.Course) =>
                         CodeOf(section) = BaseCode(r.Course)
               /\ selectedCourses = <<BaseCode(r.Course)>> =>
                     \E n \in 1..Len(generated) : IdOf(generated[n][1]) = FullCode(r.Course)

(***************************************************************************)
(* C19  The time normalizer returns hours + minutes/60 for "HH:MM" and for  *)
(* "HH:MM AM" / "HH:MM PM"; in the 12-hour form 12 AM is hour 0, a PM hour  *)
(* below 12 is advanced by 12, and 12 PM stays 12.                          *)
(***************************************************************************)
TimeCalled == unitResult.fn \in {"parseTimeB", "parseTimeF"}
TimeArg == unitArgs.a[1]

Hour24(t) ==
    CASE t.mod = "AM" -> IF t.h = 12 THEN 0 ELSE t.h
      [] t.mod = "PM" -> IF t.h < 12 THEN t.h + 12 ELSE t.h
      [] OTHER -> t.h

C19_TimeNormalizer ==
    (TimeCalled /\ TimeArg.kind = "clock") =>
        unitResult.val = Hour24(TimeArg) * TicksPerHour + TimeArg.m

(***************************************************************************)
(* C20  For a missing, an empty or an unparsable time string the time       *)
(* normalizer returns 0.                                                    *)
(***************************************************************************)
C20_TimeNormalizerLenient ==
    (TimeCalled /\ TimeArg.kind \in {"undefined", "empty", "text"}) =>
        unitResult.val = 0

(***************************************************************************)
(* C26  conflictsWith is symmetric: a.conflictsWith(b) and                  *)
(* b.conflictsWith(a) give the same answer for all sections a and b.        *)
(***************************************************************************)
\* the same call with the receiver and the argument exchanged
Swapped ==
    IF unitResult.fn = "conflictsWithB"
    THEN conflictsWithB(SectionB(unitArgs.b), SectionB(unitArgs.a))
    ELSE conflictsWithF(SectionF(unitArgs.b), SectionF(unitArgs.a))

C26_ConflictsWithSymmetric ==
    ConflictCalled => (unitResult.val <=> Swapped)

\* two different sections, the first ending on a day before the second
\* starts there: no conflict either way although a.start < b.end
C26_Witness ==
    /\ ConflictCalled
    /\ Len(unitArgs.a) = 1 /\ Len(unitArgs.b) = 2
    /\ \E y \in Range(unitArgs.b) :
          /\ unitArgs.a[1][1] = y[1]
          /\ ClockTicks(unitArgs.a[1][3]) <= ClockTicks(y[2])
    /\ unitResult.val = FALSE

(***************************************************************************)
(* C30  combinations(pool, 2) yields every pair of positions i < j of the   *)
(* pool exactly once, in lexicographic order of (i, j), and nothing when    *)
(* the pool has fewer than 2 items; so generateSchedules accepts a tuple    *)
(* exactly when no two of its sections overlap, and always accepts a        *)
(* single section.                                                          *)
(***************************************************************************)
Pool == unitArgs.a
PoolPairs == {ij \in (1..Len(Pool)) \X (1..Len(Pool)) : ij[1] < ij[2]}
PairBefore(p, q) == p[1] < q[1] \/ (p[1] = q[1] /\ p[2] < q[2])
PairRank(p) == 1 + Cardinality({q \in PoolPairs : PairBefore(q, p)})

C30_Combinations ==
    /\ unitResult.fn = "combinations" =>
          /\ Len(unitResult.val) = Cardinality(PoolPairs)
          /\ \A p \in PoolPairs :
                unitResult.val[PairRank(p)] = <<SectionB(Pool[p[1]]), SectionB(Pool[p[2]])>>
          /\ Len(Pool) < 2 => unitResult.val = <<>>
    /\ unitResult.fn = "generateSchedulesB" =>
          /\ unitResult.val \in {<<>>, <<scheduleB(Pool)>>}
          /\ unitResult.val = <<>> <=>
                \E p \in PoolPairs : MeetOverlap(Pool[p[1]][1], Pool[p[2]][1])
          /\ Len(Pool) = 1 => unitResult.val = <<scheduleB(Pool)>>

\* the six pairs of a pool of four
C30_Witness ==
    /\ unitResult.fn = "combinations"
    /\ Len(Pool) = 4
    /\ Len(unitResult.val) = 6
    /\ unitResult.val[6] = <<SectionB(Pool[3]), SectionB(Pool[4])>>

(***************************************************************************)
(* C21  Totality: for every table and every selection, selections naming    *)
(* absent courses included, generation does not throw and returns a list    *)
(* of schedules, each a list of sections of selected courses.               *)
(***************************************************************************)
GenerateCalled == unitResult.fn \in {"generateSchedulesF", "generateSchedulesB"}
UnitCodeOf(section) ==
    IF unitResult.fn = "generateSchedulesB" THEN section.course_code ELSE section.courseCode
UnitIdOf(section) ==
    IF unitResult.fn = "generateSchedulesB" THEN section.section_id ELSE section.sectionId
TableIds == {FullCode(unitArgs.a[k].Course) : k \in 1..Len(unitArgs.a)}
TableCodes == {getBaseCode(unitArgs.a[k].Course) : k \in 1..Len(unitArgs.a)}

UnitSelected == Dedup(unitArgs.b, {})
GenerationOf(selection) ==
    IF unitResult.fn = "generateSchedulesB"
    THEN allSchedulesOf(scrape_courses(unitArgs.a, 1, <<>>), selection)
    ELSE generateSchedulesF(unitArgs.a, selection)

C25_SelectionIsASet ==
    GenerateCalled =>
        /\ unitResult.val = GenerationOf(UnitSelected)
        /\ \A n \in 1..Len(unitResult.val) : \A code \in Range(unitArgs.b) :
              Cardinality({k \in 1..Len(unitResult.val[n]) :
                              UnitCodeOf(unitResult.val[n][k]) = code}) <= 1

(***************************************************************************)
(* C22  Idempotence: once the handler has run, running it again on the      *)
(* same table, selection and preferences leaves the generated list, the     *)
(* response and the best schedules as they are, order included.             *)
(***************************************************************************)
C22_Idempotence ==
    [][HandlerRan => pipelineOut' = pipelineOut]_vars

\* the React page after a run that found several best schedules
C22_Witness ==
    /\ client = "react"
    /\ message = "Found optimal schedule(s)."
    /\ Len(bestSchedules) >= 2
    /\ Len(generated) >= 3

(***************************************************************************)
(* C23  Exchanging two sections of a course in the table changes at most    *)
(* the order of the generated and of the returned schedules, never which    *)
(* combinations of sections they are.                                       *)
(***************************************************************************)
GeneratedFor(table) ==
    IF client = "http"
    THEN allSchedulesOf(scrape_courses(table, 1, <<>>), selectedCourses)
    ELSE generateSchedulesF(table, selectedCourses)

BestFor(table) ==
    IF client = "http"
    THEN generateSchedulesHandler(hasData, scrape_courses(table, 1, <<>>), selectedCourses,
                                  getPreferences(prefs)).body
    ELSE IF Len(generateSchedulesF(table, selectedCourses)) > 0
         THEN bestSchedulesF(generateSchedulesF(table, selectedCourses), prefs)
         ELSE <<>>

IdTuple(schedule) == [k \in 1..Len(schedule) |-> IdOf(schedule[k])]
IdTuples(list) == {IdTuple(list[n]) : n \in 1..Len(list)}

\* rows k and k + 1 belong to two sections of one course
SwappableRows ==
    {k \in 1..(Len(offering) - 1) :
        /\ BaseCode(offering[k].Course) = BaseCode(offering[k + 1].Course)
        /\ FullCode(offering[k].Course) # FullCode(offering[k + 1].Course)}
SwapRows(k) == [offering EXCEPT ![k] = offering[k + 1], ![k + 1] = offering[k]]

C23_ReorderInvariance ==
    GenRan =>
        \A k \in SwappableRows :
            /\ IdTuples(GeneratedFor(SwapRows(k))) = IdTuples(generated)
            /\ IdTuples(BestFor(SwapRows(k))) = IdTuples(Best)

\* an exchange that changes the order of two returned schedules
C23_Witness ==
    /\ GenRan
    /\ Len(Best) >= 2
    /\ \E k \in SwappableRows :
          /\ IdTuples(BestFor(SwapRows(k))) = IdTuples(Best)
          /\ IdTuple(BestFor(SwapRows(k))[1]) # IdTuple(Best[1])

(***************************************************************************)
(* C24  Scoring has no side effects: after scoreSchedule the schedule, its  *)
(* sections and the order and contents of every timeslot list are what      *)
(* they were, and scoring the schedule again gives the same score.          *)
(***************************************************************************)
ScoredBefore ==
    IF unitResult.fn = "scoreScheduleB" THEN scheduleB(unitArgs.schedule)
    ELSE scheduleF(unitArgs.schedule)

ScoreAgain ==
    IF unitResult.fn = "scoreScheduleB"
    THEN scoreScheduleB(unitResult.after, getPreferences(prefs))
    ELSE scoreScheduleF(unitResult.after, prefs)

C27_IndexIsValid ==
    Len(bestSchedules) > 0 =>
        /\ 0 <= scheduleIndex
        /\ scheduleIndex < Len(bestSchedules)

\* the page shows the last of three schedules while a result with fewer
\* schedules is still on its way
C27_Witness ==
    /\ client = "http"
    /\ Len(bestSchedules) = 3
    /\ scheduleIndex = 2
    /\ \E i \in 1..Len(inFlight) :
          /\ inFlight[i].status = 200
          /\ Len(inFlight[i].body) \in 1..2

(***************************************************************************)
(* C28  In /api/login-and-scrape the cache and the data file are written    *)
(* only in the step of a request whose credentials were verified and whose  *)
(* scrape returned data, and only the entry of its semester; a request      *)
(* answered with 400 or 401, one whose scraper throws and one served from   *)
(* the cache leave both as they were.                                       *)
(***************************************************************************)
\* request i is the one that moves in this step
Moves(i) ==
    /\ i \in 1..Len(requests')
    /\ i > Len(requests) \/ requests'[i] # requests[i]

CacheAt(cache, sem) == IF ObjHas(cache, sem) THEN <<ObjGet(cache, sem)>> ELSE <<>>

AnsweredWithoutScrape(req) ==
    /\ req.pc = "done"
    /\ \/ req.status \in {400, 401}
       \/ req.status = 500 /\ req.error = "scraper"
       \/ req.status = 200 /\ ~req.scraped

C28_WritesOnlyAfterScrape ==
    [][/\ (courseDataCache' # courseDataCache \/ dataFile' # dataFile) =>
             \E i \in 1..Len(requests) :
                 /\ Moves(i)
                 /\ requests'[i].verified
                 /\ requests'[i].scraped
                 /\ requests[i].body.password = "right"
                 /\ \A sem \in Semesters \ {requests[i].body.semester} :
                       CacheAt(courseDataCache', sem) = CacheAt(courseDataCache, sem)
       /\ \A i \in 1..Len(requests') :
             Moves(i) /\ AnsweredWithoutScrape(requests'[i]) =>
                 courseDataCache' = courseDataCache /\ dataFile' = dataFile]_vars

\* a scrape of SP26 has been saved next to a request that was refused and one
\* that was served from the cache
C28_Witness ==
    /\ ObjHas(courseDataCache, "SP26")
    /\ ObjHas(dataFile, "SP26")
    /\ \E i, j \in 1..Len(requests) :
          /\ requests[i].status = 200 /\ requests[i].scraped
          /\ requests[i].body.semester = "SP26"
          /\ AnsweredWithoutScrape(requests[j])

(***************************************************************************)
(* C29  After the scrape was started, polling sends at most 5 GETs: it      *)
(* stops at the first that succeeds, with the data stored, and otherwise    *)
(* ends with the timed-out message after the fifth failure; no GET follows  *)
(* either end.                                                              *)
(***************************************************************************)
PollEnded == pollPc \in {"stored", "timedOut"}

C29_PollIsBounded ==
    /\ [](/\ fetches <= 5
          /\ pollPc = "timedOut" => fetches = 5 /\ message = TimedOut /\ offering = <<>>
          /\ pollPc = "stored" => fetches \in 1..5 /\ offering # <<>>
          /\ message = TimedOut => pollPc = "timedOut")
    /\ [][/\ fetches' # fetches => fetches' = fetches + 1 /\ ~PollEnded
          /\ PollEnded => pollPc' = pollPc /\ offering' = offering]_vars

\* the fifth GET has failed and the timed-out message is shown
C29_Witness ==
    /\ pollPc = "timedOut"
    /\ fetches = 5
    /\ retries = 0
    /\ message = TimedOut

====
